---- MODULE Spec2Model ----
(***************************************************************************)
(* A model of the RuntimeSecurity and ImageAssurance reconcilers of the    *)
(* operator: the cluster objects they read, one Reconcile pass as one      *)
(* action, the status tracker calls a pass makes, the objects it applies   *)
(* and the requests the watches registered in add() enqueue.               *)
(*                                                                         *)
(* A behaviour follows one controller (kind); the controllers share no     *)
(* mutable state, each has its own status tracker and its own work queue.  *)
(***************************************************************************)
EXTENDS Integers, Sequences, FiniteSets, TLC

VARIABLES
    kind,       \* the controller followed: "RS", "IA" or "LS"
    cluster,    \* object -> its state in the API server
    crStatus,   \* Status.State of the custom resource: "" or "Ready"
    finalizers, \* metadata.finalizers of the custom resource
    owned,      \* names of the rendered objects present in the cluster
    available,  \* the owned workloads report enough ready replicas
    queued,     \* a reconcile request is in the controller's work queue
    timer,      \* a RequeueAfter delay is pending
    trace,      \* last pass: the steps it ran, each with its outcome (<<>>: no
                \* pass yet, or the cluster changed since the last one)
    calls,      \* last pass: its status tracker calls, in order
    writes,     \* last pass: the cluster objects it created, changed or deleted
    result,     \* last pass: Result.RequeueAfter in seconds (0: empty Result)
    err,        \* last pass: the returned error ("" is nil)
    repeat,     \* last pass started right after a completed pass, nothing changed between
    cancel,     \* last pass: the API call before which its context was cancelled ("" none)
    licenseAPIReady, \* the ReadyFlag the license watch goroutine marks
    jobChanged, \* the image of the migrator Job was changed after the rollout
    input,      \* the arguments of the render or conversion function under study
    output      \* what the function returned for them (<<>>: not called yet)

\* The state of a controller and of its cluster.
ctrlVars == <<kind, cluster, crStatus, finalizers, owned, available, queued, timer,
               trace, calls, writes, result, err, repeat, cancel, licenseAPIReady, jobChanged>>

vars == <<ctrlVars, input, output>>

----------------------------------------------------------------------------
(* Values.                                                                 *)

\* RuntimeSecurity, ImageAssurance, and LogStorage as far as its controller
\* test shows it.
Kinds == {"RS", "IA", "LS"}

NoError == ""
\* Any error of the API client other than not-found.
APIError == "api error"
\* The not-found error of the API client.
NotFoundError == "not found"

TigeraSecureEnterprise == "TigeraSecureEnterprise"
Calico == "Calico"
TigeraStatusReady == "Ready"

\* reconcile.Result{RequeueAfter: 30 * time.Second}
RequeueDelay == 30

\* The prerequisite objects each Reconcile reads, beside its custom resource.
Prereqs(k) ==
    IF k = "RS"
    THEN {"Installation", "PullSecret", "ESClusterConfig", "SashaESSecret", "ESGatewayCert"}
    ELSE IF k = "IA"
    THEN {"Installation", "PullSecret", "ConfigMap", "ManagerTLS", "APICert",
          "ScannerToken", "Authentication"}
    ELSE {}

Objects == {"CR"} \cup Prereqs("RS") \cup Prereqs("IA")

\* The states an object is modelled in. "ScannerToken" is the scanner API
\* access ServiceAccount with the token Secret it names: no ServiceAccount, a
\* ServiceAccount naming no secret, one naming a Secret that does not exist,
\* one whose Secret holds no token, one whose Secret holds the token.
Values(o) ==
    CASE o = "CR"             -> {"absent", "present", "emptyURL"}
      [] o = "Installation"   -> {"absent", Calico, TigeraSecureEnterprise}
      [] o = "ScannerToken"   -> {"noServiceAccount", "noSecrets", "noTokenSecret",
                                  "noToken", "token"}
      [] o = "Authentication" -> {"absent", "NotReady", TigeraStatusReady}
      [] OTHER                -> {"absent", "present"}

----------------------------------------------------------------------------
(* The watches add() registers: the object kinds and names whose events    *)
(* enqueue a reconcile request.                                            *)

\* RuntimeSecurity add(): the primary resource, ImageSet, the Installation
\* (AddNetworkWatch) and the two Secrets of the loop.
RSWatches == {"CR", "ImageSet", "Installation", "SashaESSecret", "ESGatewayCert"}

\* ImageAssurance add().
IAWatches == {"CR", "ImageSet", "Installation", "ConfigMap", "APICert", "ManagerTLS",
              "CASecret", "ScannerSA", "MigratorJob", "ScannerClusterRole",
              "AdmissionControllerClusterRole", "Authentication"}

\* The primary resource of the LogStorage controller.
LSWatches == {"CR"}

Watches(k) == IF k = "RS" THEN RSWatches ELSE IF k = "IA" THEN IAWatches ELSE LSWatches

\* The object a change of o from state a to state b touches: a change of the
\* token Secret alone leaves the ServiceAccount as it is.
SecretStates == {"noTokenSecret", "noToken", "token"}
Touched(o, a, b) ==
    IF o = "ScannerToken"
    THEN IF a \in SecretStates /\ b \in SecretStates THEN "TokenSecret" ELSE "ScannerSA"
    ELSE o

----------------------------------------------------------------------------
(* One pass: what a step read, what the pass told the status tracker.      *)

Step(s, o) == [step |-> s, out |-> o]

Range(f) == {f[i] : i \in DOMAIN f}

OnCRFound == [op |-> "OnCRFound", msg |-> ""]
OnCRNotFound == [op |-> "OnCRNotFound", msg |-> ""]
SetDegraded(m) == [op |-> "SetDegraded", msg |-> m]
ClearDegraded == [op |-> "ClearDegraded", msg |-> ""]

\* The steps of Reconcile in the order of the code.
StepOrder(k) ==
    IF k = "RS"
    THEN <<"GetCR", "GetInstallation", "GetPullSecrets", "GetESClusterConfig",
           "GetESSecrets", "CreateCA", "GetCertificate", "ApplyImageSet", "Apply1",
           "IsAvailable", "StatusUpdate">>
    ELSE IF k = "LS"
    THEN <<"GetCR", "SetFinalizers", "GetElasticsearch">>
    ELSE <<"GetCR", "GetInstallation", "GetPullSecrets", "GetConfigMap", "ValidateSpec",
           "CreateCA", "GetCertificate", "ValidateCertPair", "EnsureCertificateSecret",
           "GetServiceAccount", "GetTokenSecret", "GetImageSet", "ValidateImageSet",
           "GetAuthentication", "GetKeyValidatorConfig", "ApplyImageSet",
           "Apply1", "Apply2", "Apply3", "IsAvailable", "StatusUpdate">>

\* The API calls that are given the context of Reconcile; the others are
\* given context.Background() or take no context.
UsesContext == {"GetCR", "GetInstallation", "GetImageSet", "GetAuthentication",
                "GetKeyValidatorConfig", "ApplyImageSet", "Apply1", "Apply2", "Apply3",
                "StatusUpdate"}

\* The steps that are calls of the API client.
APICalls(k) == Range(StepOrder(k)) \ {"ValidateSpec", "ValidateImageSet", "IsAvailable"}

\* The failures of one call alone.
PlainFaults == {"none"} \cup UNION {Range(StepOrder(k)) : k \in Kinds}

\* The failure "the context is cancelled just before step t".
CancelFault == [t \in PlainFaults |-> "cancel:" \o t]

\* The place of each step in the order of the code.
StepIndex ==
    [k \in Kinds |-> [s \in Range(StepOrder(k)) |->
        CHOOSE i \in DOMAIN StepOrder(k) : StepOrder(k)[i] = s]]

\* The place in the order of the code at which each cancellation happens.
CancelIndex ==
    [k \in Kinds |-> [f \in {CancelFault[t] : t \in Range(StepOrder(k))} |->
        CHOOSE i \in DOMAIN StepOrder(k) : CancelFault[StepOrder(k)[i]] = f]]

\* Step s is called with a cancelled context: the context was cancelled just
\* before s or before an earlier step.
Cancelled(s, fault) ==
    /\ s \in UsesContext
    /\ fault \notin PlainFaults
    /\ CancelIndex[kind][fault] <= StepIndex[kind][s]

\* The outcome of a client read at step s: the injected failure, the
\* cancellation of the context, or what the cluster holds.
Get(s, present, fault) ==
    IF fault = s \/ Cancelled(s, fault) THEN "error"
    ELSE IF present THEN "ok" ELSE "notfound"

\* What a pass returns and did: trace and calls so far, the returned Result and
\* error, how many components CreateOrUpdateOrDelete applied, whether the
\* Status update was written, and the TLS secret handed to the passthrough
\* component ("" none, "kept" the cluster's, "fresh" newly generated).
Return(tr, cl, res, e, n, sw, tls) ==
    [trace |-> tr, calls |-> cl, result |-> res, err |-> e, applied |-> n,
     statusWrite |-> sw, tls |-> tls]

----------------------------------------------------------------------------
(* ReconcileRuntimeSecurity.Reconcile, last step first: each operator is   *)
(* the rest of the function from one statement on, given the trace and the *)
(* status tracker calls made so far and the step whose API call fails.     *)

\* status.IsAvailable(): all registered workloads report enough ready replicas.
IsAvailable == available

\* RS_Finish returning an empty Result while the workloads are not available.
RS_Finish_NoRequeue(tr, cl, fault) ==
    LET cl1 == Append(cl, ClearDegraded) IN
    IF ~IsAvailable
    THEN Return(Append(tr, Step("IsAvailable", "false")), cl1, 0, NoError, 1, FALSE, "")
    ELSE LET tr1 == Append(tr, Step("IsAvailable", "true"))
             up  == Get("StatusUpdate", TRUE, fault) IN
         IF up = "error"
         THEN Return(Append(tr1, Step("StatusUpdate", up)), cl1, 0, APIError, 1, FALSE, "")
         ELSE Return(Append(tr1, Step("StatusUpdate", up)), cl1, 0, NoError, 1, TRUE, "")

\* ClearDegraded, the availability check and the Status update.
RS_Finish(tr, cl, fault) ==
    LET cl1 == Append(cl, ClearDegraded) IN
    IF ~IsAvailable
    THEN Return(Append(tr, Step("IsAvailable", "false")), cl1, RequeueDelay, NoError, 1, FALSE, "")
    ELSE LET tr1 == Append(tr, Step("IsAvailable", "true"))
             up  == Get("StatusUpdate", TRUE, fault) IN
         IF up = "error"
         THEN Return(Append(tr1, Step("StatusUpdate", up)), cl1, 0, APIError, 1, FALSE, "")
         ELSE Return(Append(tr1, Step("StatusUpdate", up)), cl1, 0, NoError, 1, TRUE, "")

\* RS_Apply with the failure of CreateOrUpdateOrDelete degraded but not returned.
RS_Apply_SwallowsError(tr, cl, fault) ==
    LET r == Get("Apply1", TRUE, fault) IN
    IF r = "error"
    THEN Return(Append(tr, Step("Apply1", r)),
                Append(cl, SetDegraded("Error creating / updating resource")),
                0, NoError, 0, FALSE, "")
    ELSE RS_Finish(Append(tr, Step("Apply1", r)), cl, fault)

\* NewComponentHandler and CreateOrUpdateOrDelete of the one component.
RS_Apply(tr, cl, fault) ==
    LET r == Get("Apply1", TRUE, fault) IN
    IF r = "error"
    THEN Return(Append(tr, Step("Apply1", r)),
                Append(cl, SetDegraded("Error creating / updating resource")),
                0, APIError, 0, FALSE, "")
    ELSE RS_Finish(Append(tr, Step("Apply1", r)), cl, fault)

\* Building the Config, the component and imageset.ApplyImageSet.
RS_ApplyImageSet(tr, cl, fault) ==
    LET r == Get("ApplyImageSet", TRUE, fault) IN
    IF r = "error"
    THEN Return(Append(tr, Step("ApplyImageSet", r)),
                Append(cl, SetDegraded("Error with images from ImageSet")),
                0, APIError, 0, FALSE, "")
    ELSE RS_Apply(Append(tr, Step("ApplyImageSet", r)), cl, fault)

\* certificatemanager.Create and GetCertificate of the gateway certificate
\* (a nil certificate with a nil error when the secret does not exist).
RS_GetCertificate(tr, cl, fault) ==
    LET ca == Get("CreateCA", TRUE, fault) IN
    IF ca = "error"
    THEN Return(Append(tr, Step("CreateCA", ca)),
                Append(cl, SetDegraded("Unable to create the Tigera CA")),
                0, APIError, 0, FALSE, "")
    ELSE LET tr1 == Append(tr, Step("CreateCA", ca))
             r   == Get("GetCertificate", cluster["ESGatewayCert"] # "absent", fault) IN
         IF r = "error"
         THEN Return(Append(tr1, Step("GetCertificate", r)),
                     Append(cl, SetDegraded("Failed to retrieve / validate  tigera-secure-es-gateway-http-certs-public")),
                     0, APIError, 0, FALSE, "")
         ELSE IF r = "notfound"
         THEN Return(Append(tr1, Step("GetCertificate", r)),
                     Append(cl, SetDegraded("Elasticsearch gateway certificate are not available yet, waiting until they become available")),
                     0, NoError, 0, FALSE, "")
         ELSE RS_ApplyImageSet(Append(tr1, Step("GetCertificate", r)), cl, fault)

\* utils.ElasticsearchSecrets for the sasha user.
RS_GetESSecrets(tr, cl, fault) ==
    LET r == Get("GetESSecrets", cluster["SashaESSecret"] # "absent", fault) IN
    IF r = "notfound"
    THEN Return(Append(tr, Step("GetESSecrets", r)),
                Append(cl, SetDegraded("Elasticsearch secrets are not available yet, waiting until they become available")),
                0, NoError, 0, FALSE, "")
    ELSE IF r = "error"
    THEN Return(Append(tr, Step("GetESSecrets", r)),
                Append(cl, SetDegraded("Failed to get Elasticsearch credentials")),
                0, APIError, 0, FALSE, "")
    ELSE RS_GetCertificate(Append(tr, Step("GetESSecrets", r)), cl, fault)

\* RS_GetESClusterConfig with the not-found case handled as any other error.
RS_GetESClusterConfig_AllErrors(tr, cl, fault) ==
    LET r == Get("GetESClusterConfig", cluster["ESClusterConfig"] # "absent", fault) IN
    IF r # "ok"
    THEN Return(Append(tr, Step("GetESClusterConfig", r)),
                Append(cl, SetDegraded("Failed to get the elasticsearch cluster configuration")),
                0, APIError, 0, FALSE, "")
    ELSE RS_GetESSecrets(Append(tr, Step("GetESClusterConfig", r)), cl, fault)

\* utils.GetElasticsearchClusterConfig.
RS_GetESClusterConfig(tr, cl, fault) ==
    LET r == Get("GetESClusterConfig", cluster["ESClusterConfig"] # "absent", fault) IN
    IF r = "notfound"
    THEN Return(Append(tr, Step("GetESClusterConfig", r)),
                Append(cl, SetDegraded("Elasticsearch cluster configuration is not available, waiting for it to become available")),
                0, NoError, 0, FALSE, "")
    ELSE IF r = "error"
    THEN Return(Append(tr, Step("GetESClusterConfig", r)),
                Append(cl, SetDegraded("Failed to get the elasticsearch cluster configuration")),
                0, APIError, 0, FALSE, "")
    ELSE RS_GetESSecrets(Append(tr, Step("GetESClusterConfig", r)), cl, fault)

\* utils.GetNetworkingPullSecrets: every error is returned, not-found included.
RS_GetPullSecrets(tr, cl, fault) ==
    LET r == Get("GetPullSecrets", cluster["PullSecret"] # "absent", fault) IN
    IF r # "ok"
    THEN Return(Append(tr, Step("GetPullSecrets", r)),
                Append(cl, SetDegraded("Error retrieving pull secrets")),
                0, IF r = "notfound" THEN NotFoundError ELSE APIError, 0, FALSE, "")
    ELSE RS_GetESClusterConfig(Append(tr, Step("GetPullSecrets", r)), cl, fault)

\* RS_GetInstallation accepting every variant.
RS_GetInstallation_AnyVariant(tr, cl, fault) ==
    LET r == Get("GetInstallation", cluster["Installation"] # "absent", fault) IN
    IF r = "notfound"
    THEN Return(Append(tr, Step("GetInstallation", r)),
                Append(cl, SetDegraded("Installation not found")),
                0, NoError, 0, FALSE, "")
    ELSE IF r = "error"
    THEN Return(Append(tr, Step("GetInstallation", r)),
                Append(cl, SetDegraded("Error querying installation")),
                0, APIError, 0, FALSE, "")
    ELSE RS_GetPullSecrets(Append(tr, Step("GetInstallation", r)), cl, fault)

\* utils.GetInstallation and the check of the variant.
RS_GetInstallation(tr, cl, fault) ==
    LET r == Get("GetInstallation", cluster["Installation"] # "absent", fault) IN
    IF r = "notfound"
    THEN Return(Append(tr, Step("GetInstallation", r)),
                Append(cl, SetDegraded("Installation not found")),
                0, NoError, 0, FALSE, "")
    ELSE IF r = "error"
    THEN Return(Append(tr, Step("GetInstallation", r)),
                Append(cl, SetDegraded("Error querying installation")),
                0, APIError, 0, FALSE, "")
    ELSE IF cluster["Installation"] # TigeraSecureEnterprise
    THEN Return(Append(tr, Step("GetInstallation", "wrong variant")),
                Append(cl, SetDegraded("Waiting for network to be TigeraSecureEnterprise")),
                0, NoError, 0, FALSE, "")
    ELSE RS_GetPullSecrets(Append(tr, Step("GetInstallation", r)), cl, fault)

\* The pass without its call of OnCRFound.
RS_Reconcile_NoOnCRFound(fault) ==
    LET r == Get("GetCR", cluster["CR"] # "absent", fault) IN
    IF r = "notfound"
    THEN Return(<<Step("GetCR", r)>>, <<OnCRNotFound>>, 0, NoError, 0, FALSE, "")
    ELSE IF r = "error"
    THEN Return(<<Step("GetCR", r)>>, <<SetDegraded("Error querying for RuntimeSecurity")>>,
                0, APIError, 0, FALSE, "")
    ELSE RS_GetInstallation(<<Step("GetCR", r)>>, <<>>, fault)

\* The whole pass: getRuntimeSecurity, then the rest.
RS_Reconcile(fault) ==
    LET r == Get("GetCR", cluster["CR"] # "absent", fault) IN
    IF r = "notfound"
    THEN Return(<<Step("GetCR", r)>>, <<OnCRNotFound>>, 0, NoError, 0, FALSE, "")
    ELSE IF r = "error"
    THEN Return(<<Step("GetCR", r)>>, <<SetDegraded("Error querying for RuntimeSecurity")>>,
                0, APIError, 0, FALSE, "")
    ELSE RS_GetInstallation(<<Step("GetCR", r)>>, <<OnCRFound>>, fault)

\* The API calls of a RuntimeSecurity pass that can fail.
RSFaults == {"GetCR", "GetInstallation", "GetPullSecrets", "GetESClusterConfig",
             "GetESSecrets", "CreateCA", "GetCertificate", "ApplyImageSet", "Apply1",
             "StatusUpdate"}

----------------------------------------------------------------------------
(* ReconcileImageAssurance.Reconcile, last step first.                     *)

\* The components of the apply loop, in order: the passthrough of the API TLS
\* secret, the image assurance component, the certificate management component.
IAComponents == <<"Passthrough", "ImageAssurance", "CertificateManagement">>

ApplyStep(k) == CASE k = 1 -> "Apply1" [] k = 2 -> "Apply2" [] OTHER -> "Apply3"

\* IA_Finish with the delay also returned when the Status update fails.
IA_Finish_RequeuesOnError(tr, cl, fault, tls) ==
    LET cl1 == Append(cl, ClearDegraded)
        n   == Len(IAComponents) IN
    IF ~IsAvailable
    THEN Return(Append(tr, Step("IsAvailable", "false")), cl1, RequeueDelay, NoError, n, FALSE, tls)
    ELSE LET tr1 == Append(tr, Step("IsAvailable", "true"))
             up  == Get("StatusUpdate", TRUE, fault) IN
         IF up = "error"
         THEN Return(Append(tr1, Step("StatusUpdate", up)), cl1, RequeueDelay, APIError, n, FALSE, tls)
         ELSE Return(Append(tr1, Step("StatusUpdate", up)), cl1, 0, NoError, n, TRUE, tls)

\* ClearDegraded, the availability check and the Status update.
IA_Finish(tr, cl, fault, tls) ==
    LET cl1 == Append(cl, ClearDegraded)
        n   == Len(IAComponents) IN
    IF ~IsAvailable
    THEN Return(Append(tr, Step("IsAvailable", "false")), cl1, RequeueDelay, NoError, n, FALSE, tls)
    ELSE LET tr1 == Append(tr, Step("IsAvailable", "true"))
             up  == Get("StatusUpdate", TRUE, fault) IN
         IF up = "error"
         THEN Return(Append(tr1, Step("StatusUpdate", up)), cl1, 0, APIError, n, FALSE, tls)
         ELSE Return(Append(tr1, Step("StatusUpdate", up)), cl1, 0, NoError, n, TRUE, tls)

\* The loop over the components: CreateOrUpdateOrDelete of component k and of
\* those after it; the first failure returns.
RECURSIVE IA_Apply(_, _, _, _, _)
IA_Apply(k, tr, cl, fault, tls) ==
    IF k > Len(IAComponents)
    THEN IA_Finish(tr, cl, fault, tls)
    ELSE LET r == Get(ApplyStep(k), TRUE, fault) IN
         IF r = "error"
         THEN Return(Append(tr, Step(ApplyStep(k), r)),
                     Append(cl, SetDegraded("Error creating / updating resource")),
                     0, APIError, k - 1, FALSE, tls)
         ELSE IA_Apply(k + 1, Append(tr, Step(ApplyStep(k), r)), cl, fault, tls)

\* Building the Config and the components, and imageset.ApplyImageSet.
IA_ApplyImageSet(tr, cl, fault, tls) ==
    LET r == Get("ApplyImageSet", TRUE, fault) IN
    IF r = "error"
    THEN Return(Append(tr, Step("ApplyImageSet", r)),
                Append(cl, SetDegraded("Error with images from ImageSet")),
                0, APIError, 0, FALSE, tls)
    ELSE IA_Apply(1, Append(tr, Step("ApplyImageSet", r)), cl, fault, tls)

\* IA_GetAuthentication with a missing Authentication treated as one that is
\* not ready.
IA_GetAuthentication_NotFoundWaits(tr, cl, fault, tls) ==
    LET r == Get("GetAuthentication", cluster["Authentication"] # "absent", fault) IN
    IF r = "error"
    THEN Return(Append(tr, Step("GetAuthentication", r)),
                Append(cl, SetDegraded("Error querying Authentication")),
                0, APIError, 0, FALSE, tls)
    ELSE IF cluster["Authentication"] # TigeraStatusReady
    THEN Return(Append(tr, Step("GetAuthentication", r)),
                Append(cl, SetDegraded("Authentication is not ready")),
                0, NoError, 0, FALSE, tls)
    ELSE IA_ApplyImageSet(Append(tr, Step("GetAuthentication", r)), cl, fault, tls)

\* utils.GetAuthentication, the check of its state, utils.GetKeyValidatorConfig.
IA_GetAuthentication(tr, cl, fault, tls) ==
    LET r == Get("GetAuthentication", cluster["Authentication"] # "absent", fault) IN
    IF r = "error"
    THEN Return(Append(tr, Step("GetAuthentication", r)),
                Append(cl, SetDegraded("Error querying Authentication")),
                0, APIError, 0, FALSE, tls)
    ELSE IF r = "ok" /\ cluster["Authentication"] # TigeraStatusReady
    THEN Return(Append(tr, Step("GetAuthentication", "not ready")),
                Append(cl, SetDegraded("Authentication is not ready")),
                0, NoError, 0, FALSE, tls)
    ELSE LET tr1 == Append(tr, Step("GetAuthentication", r))
             kvc == Get("GetKeyValidatorConfig", TRUE, fault) IN
         IF kvc = "error"
         THEN Return(Append(tr1, Step("GetKeyValidatorConfig", kvc)),
                     Append(cl, SetDegraded("Failed to process the authentication CR.")),
                     0, APIError, 0, FALSE, tls)
         ELSE IA_ApplyImageSet(Append(tr1, Step("GetKeyValidatorConfig", kvc)), cl, fault, tls)

\* imageset.GetImageSet and imageset.ValidateImageSet.
IA_GetImageSet(tr, cl, fault, tls) ==
    LET r == Get("GetImageSet", TRUE, fault) IN
    IF r = "error"
    THEN Return(Append(tr, Step("GetImageSet", r)),
                Append(cl, SetDegraded("Error retrieving image set")),
                0, APIError, 0, FALSE, tls)
    ELSE LET tr1 == Append(tr, Step("GetImageSet", r))
             v   == Get("ValidateImageSet", TRUE, fault) IN
         IF v = "error"
         THEN Return(Append(tr1, Step("ValidateImageSet", v)),
                     Append(cl, SetDegraded("Error validating image set")),
                     0, APIError, 0, FALSE, tls)
         ELSE IA_GetAuthentication(Append(tr1, Step("ValidateImageSet", v)), cl, fault, tls)

\* getAPIAccessToken: the steps it ran, the token ("" is nil) and the error.
getAPIAccessToken(fault) ==
    LET sa == Get("GetServiceAccount", cluster["ScannerToken"] # "noServiceAccount", fault) IN
    IF sa # "ok"
    THEN [steps |-> <<Step("GetServiceAccount", sa)>>, token |-> "",
          err |-> IF sa = "notfound" THEN NotFoundError ELSE APIError]
    ELSE IF cluster["ScannerToken"] = "noSecrets"
    THEN [steps |-> <<Step("GetServiceAccount", "no secrets")>>, token |-> "", err |-> NoError]
    ELSE LET sec == Get("GetTokenSecret", cluster["ScannerToken"] # "noTokenSecret", fault) IN
         IF sec # "ok"
         THEN [steps |-> <<Step("GetServiceAccount", sa), Step("GetTokenSecret", sec)>>,
               token |-> "", err |-> IF sec = "notfound" THEN NotFoundError ELSE APIError]
         ELSE IF cluster["ScannerToken"] = "noToken"
         THEN [steps |-> <<Step("GetServiceAccount", sa), Step("GetTokenSecret", "no token")>>,
               token |-> "", err |-> NoError]
         ELSE [steps |-> <<Step("GetServiceAccount", sa), Step("GetTokenSecret", sec)>>,
               token |-> "token", err |-> NoError]

\* The scanner API access token: an error is returned, a nil token waits.
IA_GetAPIAccessToken(tr, cl, fault, tls) ==
    LET t == getAPIAccessToken(fault) IN
    IF t.err # NoError
    THEN Return(tr \o t.steps,
                Append(cl, SetDegraded("Error in retrieving scanner API access token")),
                0, t.err, 0, FALSE, tls)
    ELSE IF t.token = ""
    THEN Return(tr \o t.steps,
                Append(cl, SetDegraded("Waiting for scanner api access service account secret to be available")),
                0, NoError, 0, FALSE, tls)
    ELSE IA_GetImageSet(tr \o t.steps, cl, fault, tls)

\* getAPICertSecret generating a new secret in every pass.
getAPICertSecret_AlwaysFresh(fault) ==
    LET v == Get("ValidateCertPair", TRUE, fault) IN
    IF v = "error"
    THEN [steps |-> <<Step("ValidateCertPair", v)>>, secret |-> "", err |-> APIError]
    ELSE LET e == Get("EnsureCertificateSecret", TRUE, fault) IN
         IF e = "error"
         THEN [steps |-> <<Step("ValidateCertPair", v), Step("EnsureCertificateSecret", e)>>,
               secret |-> "", err |-> APIError]
         ELSE [steps |-> <<Step("ValidateCertPair", v), Step("EnsureCertificateSecret", e)>>,
               secret |-> "fresh", err |-> NoError]

\* getAPICertSecret: utils.ValidateCertPair returns nil, nil when the secret
\* is not found; utils.EnsureCertificateSecret returns the secret it is given
\* and generates a new one when it is given none.
getAPICertSecret(fault) ==
    LET v == Get("ValidateCertPair", TRUE, fault) IN
    IF v = "error"
    THEN [steps |-> <<Step("ValidateCertPair", v)>>, secret |-> "", err |-> APIError]
    ELSE LET e == Get("EnsureCertificateSecret", TRUE, fault) IN
         IF e = "error"
         THEN [steps |-> <<Step("ValidateCertPair", v), Step("EnsureCertificateSecret", e)>>,
               secret |-> "", err |-> APIError]
         ELSE [steps |-> <<Step("ValidateCertPair", v), Step("EnsureCertificateSecret", e)>>,
               secret |-> IF cluster["APICert"] = "present" THEN "kept" ELSE "fresh",
               err |-> NoError]

\* The TLS secret of the image assurance API.
IA_GetAPICertSecret(tr, cl, fault) ==
    LET s == getAPICertSecret(fault) IN
    IF s.err # NoError
    THEN Return(tr \o s.steps,
                Append(cl, SetDegraded("Error in ensuring TLS certificate for image-assurance api")),
                0, s.err, 0, FALSE, "")
    ELSE IA_GetAPIAccessToken(tr \o s.steps, cl, fault, s.secret)

\* certificatemanager.Create and GetCertificate of the internal manager TLS
\* secret (a nil certificate with a nil error when the secret does not exist).
IA_GetCertificate(tr, cl, fault) ==
    LET ca == Get("CreateCA", TRUE, fault) IN
    IF ca = "error"
    THEN Return(Append(tr, Step("CreateCA", ca)),
                Append(cl, SetDegraded("Unable to create the Tigera CA")),
                0, APIError, 0, FALSE, "")
    ELSE LET tr1 == Append(tr, Step("CreateCA", ca))
             r   == Get("GetCertificate", cluster["ManagerTLS"] # "absent", fault) IN
         IF r = "error"
         THEN Return(Append(tr1, Step("GetCertificate", r)),
                     Append(cl, SetDegraded("Error retrieving internal manager tls secret")),
                     0, APIError, 0, FALSE, "")
         ELSE IF r = "notfound"
         THEN Return(Append(tr1, Step("GetCertificate", r)),
                     Append(cl, SetDegraded("Waiting for internal manager tls certificate to be available")),
                     0, NoError, 0, FALSE, "")
         ELSE IA_GetAPICertSecret(Append(tr1, Step("GetCertificate", r)), cl, fault)

\* IA_ValidateSpec reporting an empty APIProxyURL without returning an error.
IA_ValidateSpec_NoError(tr, cl, fault) ==
    IF cluster["CR"] = "emptyURL"
    THEN Return(Append(tr, Step("ValidateSpec", "invalid")),
                Append(cl, SetDegraded("APIProxyURL cannot be nil or empty")),
                0, NoError, 0, FALSE, "")
    ELSE IA_GetCertificate(Append(tr, Step("ValidateSpec", "ok")), cl, fault)

\* The validation of the spec: APIProxyURL must not be empty.
IA_ValidateSpec(tr, cl, fault) ==
    IF cluster["CR"] = "emptyURL"
    THEN Return(Append(tr, Step("ValidateSpec", "invalid")),
                Append(cl, SetDegraded("APIProxyURL cannot be nil or empty")),
                0, "APIProxyURL cannot be nil or empty", 0, FALSE, "")
    ELSE IA_GetCertificate(Append(tr, Step("ValidateSpec", "ok")), cl, fault)

\* IA_GetConfigMap returning no error when the read fails.
IA_GetConfigMap_SwallowsError(tr, cl, fault) ==
    LET r == Get("GetConfigMap", cluster["ConfigMap"] # "absent", fault) IN
    IF r # "ok"
    THEN Return(Append(tr, Step("GetConfigMap", r)),
                Append(cl, SetDegraded("tigera-image-assurance-config ConfigMap not found")),
                0, NoError, 0, FALSE, "")
    ELSE IA_ValidateSpec(Append(tr, Step("GetConfigMap", r)), cl, fault)

\* utils.GetImageAssuranceConfigurationConfigMap.
IA_GetConfigMap(tr, cl, fault) ==
    LET r == Get("GetConfigMap", cluster["ConfigMap"] # "absent", fault) IN
    IF r = "notfound"
    THEN Return(Append(tr, Step("GetConfigMap", r)),
                Append(cl, SetDegraded("tigera-image-assurance-config ConfigMap not found")),
                0, NoError, 0, FALSE, "")
    ELSE IF r = "error"
    THEN Return(Append(tr, Step("GetConfigMap", r)),
                Append(cl, SetDegraded("Error retrieving image assurance configuration")),
                0, APIError, 0, FALSE, "")
    ELSE IA_ValidateSpec(Append(tr, Step("GetConfigMap", r)), cl, fault)

\* IA_GetPullSecrets going on to the validation of the spec without the read of
\* the ConfigMap.
IA_GetPullSecrets_ValidatesFirst(tr, cl, fault) ==
    LET r == Get("GetPullSecrets", cluster["PullSecret"] # "absent", fault) IN
    IF r # "ok"
    THEN Return(Append(tr, Step("GetPullSecrets", r)),
                Append(cl, SetDegraded("Error retrieving image pull secrets")),
                0, IF r = "notfound" THEN NotFoundError ELSE APIError, 0, FALSE, "")
    ELSE IA_ValidateSpec(Append(tr, Step("GetPullSecrets", r)), cl, fault)

\* utils.GetNetworkingPullSecrets: every error is returned, not-found included.
IA_GetPullSecrets(tr, cl, fault) ==
    LET r == Get("GetPullSecrets", cluster["PullSecret"] # "absent", fault) IN
    IF r # "ok"
    THEN Return(Append(tr, Step("GetPullSecrets", r)),
                Append(cl, SetDegraded("Error retrieving image pull secrets")),
                0, IF r = "notfound" THEN NotFoundError ELSE APIError, 0, FALSE, "")
    ELSE IA_GetConfigMap(Append(tr, Step("GetPullSecrets", r)), cl, fault)

\* utils.GetInstallation; the variant it returns is not checked, only passed
\* to the image set functions.
IA_GetInstallation(tr, cl, fault) ==
    LET r == Get("GetInstallation", cluster["Installation"] # "absent", fault) IN
    IF r = "notfound"
    THEN Return(Append(tr, Step("GetInstallation", r)),
                Append(cl, SetDegraded("Installation not found")),
                0, NoError, 0, FALSE, "")
    ELSE IF r = "error"
    THEN Return(Append(tr, Step("GetInstallation", r)),
                Append(cl, SetDegraded("Error querying installation")),
                0, APIError, 0, FALSE, "")
    ELSE IA_GetPullSecrets(Append(tr, Step("GetInstallation", r)), cl, fault)

\* IA_Reconcile treating a custom resource that is not found as a failure.
IA_Reconcile_NotFoundDegrades(fault) ==
    LET r == Get("GetCR", cluster["CR"] # "absent", fault) IN
    IF r # "ok"
    THEN Return(<<Step("GetCR", r)>>, <<SetDegraded("Error querying for ImageAssurance")>>,
                0, IF r = "notfound" THEN NotFoundError ELSE APIError, 0, FALSE, "")
    ELSE IA_GetInstallation(<<Step("GetCR", r)>>, <<OnCRFound>>, fault)

\* The whole pass: utils.GetImageAssurance, then the rest.
IA_Reconcile(fault) ==
    LET r == Get("GetCR", cluster["CR"] # "absent", fault) IN
    IF r = "notfound"
    THEN Return(<<Step("GetCR", r)>>, <<OnCRNotFound>>, 0, NoError, 0, FALSE, "")
    ELSE IF r = "error"
    THEN Return(<<Step("GetCR", r)>>, <<SetDegraded("Error querying for ImageAssurance")>>,
                0, APIError, 0, FALSE, "")
    ELSE IA_GetInstallation(<<Step("GetCR", r)>>, <<OnCRFound>>, fault)

\* The API calls of an ImageAssurance pass that can fail.
IAFaults == {"GetCR", "GetInstallation", "GetPullSecrets", "GetConfigMap", "CreateCA",
             "GetCertificate", "ValidateCertPair", "EnsureCertificateSecret",
             "GetServiceAccount", "GetTokenSecret", "GetImageSet", "ValidateImageSet",
             "GetAuthentication", "GetKeyValidatorConfig", "ApplyImageSet",
             "Apply1", "Apply2", "Apply3", "StatusUpdate"}

----------------------------------------------------------------------------
(* The LogStorage reconciler, as far as the first pass of its controller   *)
(* test shows it: with the LogStorage resource present the pass sets the   *)
(* finalizer on it, applies the ECK operator and waits for Elasticsearch.  *)

ECKCleanupFinalizer == "tigera.io/eck-cleanup"

LS_Reconcile ==
    Return(<<Step("GetCR", "ok"), Step("SetFinalizers", "ok"),
             Step("GetElasticsearch", "not operational")>>,
           <<OnCRFound, SetDegraded("Waiting for Elasticsearch cluster to be operational")>>,
           0, NoError, 0, FALSE, "")

\* The finalizers of the custom resource after a pass.
FinalizersAfter(k, o) ==
    IF k = "LS" /\ \E i \in DOMAIN o.trace : o.trace[i] = Step("SetFinalizers", "ok")
    THEN finalizers \cup {ECKCleanupFinalizer}
    ELSE finalizers

----------------------------------------------------------------------------
(* Rendering and applying.                                                 *)

\* The copies secret.CopyToNamespace makes of the given secrets, in order.
CopyToNamespace(secrets) == [i \in DOMAIN secrets |-> <<"Secret", secrets[i]>>]

\* The delete list of the RuntimeSecurity component: the sasha CronJob and the
\* old sasha ServiceAccount.
RSLegacy == <<<<"CronJob", "sasha">>, <<"ServiceAccount", "tigera-sasha">>>>

\* component.Objects() of RuntimeSecurity with the sasha objects rendered for
\* every Config.
RSObjects_SashaAlways(cfg) ==
    [create |-> <<<<"Namespace", "tigera-runtime-security">>>>
                \o CopyToNamespace(cfg.PullSecrets)
                \o <<<<"ConfigMap", "tigera-ca-bundle">>>>
                \o CopyToNamespace(cfg.SashaESSecrets)
                \o <<<<"ServiceAccount", "sasha">>, <<"Deployment", "sasha">>>>,
     delete |-> RSLegacy]

\* component.Objects() of RuntimeSecurity: the create list and the delete list
\* for a Config with the given pull secrets and sasha Elasticsearch secrets.
RSObjects(cfg) ==
    [create |-> <<<<"Namespace", "tigera-runtime-security">>>>
                \o CopyToNamespace(cfg.PullSecrets)
                \o <<<<"ConfigMap", "tigera-ca-bundle">>>>
                \o (IF Len(cfg.SashaESSecrets) > 0
                    THEN CopyToNamespace(cfg.SashaESSecrets)
                         \o <<<<"ServiceAccount", "sasha">>, <<"Deployment", "sasha">>>>
                    ELSE <<>>),
     delete |-> RSLegacy]

\* The Config the RuntimeSecurity pass builds once every read succeeded.
RSConfig == [PullSecrets |-> <<"tigera-pull-secret">>,
             SashaESSecrets |-> <<"tigera-ee-sasha-elasticsearch-access">>]

\* The objects of the ImageAssurance pass's second and third component: the
\* image assurance component and the certificate management component.
IAObjects(k) == {<<"Component", IAComponents[k]>>}

\* ComponentHandler.CreateOrUpdateOrDelete: every object of the create list is
\* created or updated to its rendered form, every object of the delete list
\* is deleted.
CreateOrUpdateOrDelete(have, objs) == (have \cup Range(objs.create)) \ Range(objs.delete)

\* The owned objects after a pass that applied its first n components.
OwnedAfter(k, n) ==
    IF k = "RS"
    THEN IF n >= 1 THEN CreateOrUpdateOrDelete(owned, RSObjects(RSConfig)) ELSE owned
    ELSE owned \cup UNION {IAObjects(i) : i \in 2..n}

\* ClusterAfter with a pass that also defaults an empty APIProxyURL in the Spec.
ClusterAfter_DefaultsSpec(k, n, tls) ==
    LET c == IF cluster["CR"] = "emptyURL" THEN [cluster EXCEPT !["CR"] = "present"] ELSE cluster IN
    IF k = "IA" /\ n >= 1 /\ tls = "fresh"
    THEN [c EXCEPT !["APICert"] = "present"]
    ELSE c

\* The prerequisite objects after a pass: the passthrough component writes the
\* API TLS secret it was given.
ClusterAfter(k, n, tls) ==
    IF k = "IA" /\ n >= 1 /\ tls = "fresh"
    THEN [cluster EXCEPT !["APICert"] = "present"]
    ELSE cluster

\* The workloads the status tracker watches: the sasha Deployment, the
\* Deployments of the image assurance component.
Workloads(k) ==
    IF k = "RS" THEN {<<"Deployment", "sasha">>} ELSE {<<"Component", "ImageAssurance">>}

\* The last pass ran to its end: every component applied, no error returned.
Completed == err = NoError /\ calls # <<>> /\ calls[Len(calls)] = ClearDegraded

----------------------------------------------------------------------------
(* The actions.                                                            *)

CtrlInit ==
    /\ kind \in Kinds
    /\ cluster = [o \in Objects |-> IF o = "ScannerToken" THEN "noServiceAccount" ELSE "absent"]
    /\ crStatus = ""
    /\ finalizers = {}
    /\ owned \in {{}, IF kind = "RS" THEN Range(RSLegacy) ELSE {}}
    /\ available = FALSE
    /\ queued = FALSE
    /\ timer = FALSE
    /\ trace = <<>>
    /\ calls = <<>>
    /\ writes = {}
    /\ result = 0
    /\ err = NoError
    /\ repeat = FALSE
    /\ cancel = ""
    /\ licenseAPIReady = FALSE
    /\ jobChanged = FALSE

\* A controller run calls no render or conversion function on its own here.
Init ==
    /\ CtrlInit
    /\ input = <<>>
    /\ output = <<>>

\* A pass that also empties Status.State when it fails.
StatusAfter_ClearsOnError(o) ==
    IF o.statusWrite THEN TigeraStatusReady
    ELSE IF o.err # NoError THEN "" ELSE crStatus

\* Status.State of the custom resource after a pass: Ready when the pass
\* reached its Status update, else what it was.
StatusAfter(o) == IF o.statusWrite THEN TigeraStatusReady ELSE crStatus

\* One Reconcile pass, with the effects of the returned Result and error on
\* the work queue: an error requeues the request, RequeueAfter starts a timer,
\* and a write to a watched object enqueues a request. The writes of the pass
\* are the objects it leaves other than it found them; a newly generated TLS
\* secret differs from any stored one. c is the call before which the context
\* of the pass was cancelled.
PassWith(o, c) ==
    LET cluster1 == ClusterAfter(kind, o.applied, o.tls)
        owned1   == OwnedAfter(kind, o.applied)
        status1  == StatusAfter(o)
        final1   == FinalizersAfter(kind, o)
        w        == (IF kind = "IA" /\ o.applied >= 1 /\ o.tls = "fresh"
                     THEN {<<"Write", "APICert">>} ELSE {})
                    \cup {<<"Create", x>> : x \in owned1 \ owned}
                    \cup {<<"Delete", x>> : x \in owned \ owned1}
                    \cup (IF status1 # crStatus THEN {<<"Status", "CR">>} ELSE {})
                    \cup (IF final1 # finalizers THEN {<<"Metadata", "CR">>} ELSE {})
                    \cup (IF cluster1["CR"] # cluster["CR"] THEN {<<"Spec", "CR">>} ELSE {})
    IN  /\ cluster' = cluster1
        /\ owned' = owned1
        /\ crStatus' = status1
        /\ finalizers' = final1
        /\ writes' = w
        /\ trace' = o.trace
        /\ calls' = o.calls
        /\ result' = o.result
        /\ err' = o.err
        /\ queued' = (o.err # NoError
                      \/ status1 # crStatus
                      \/ final1 # finalizers
                      \/ \E x \in Objects : /\ cluster1[x] # cluster[x]
                                             /\ Touched(x, cluster[x], cluster1[x]) \in Watches(kind))
        /\ timer' = (timer \/ (o.err = NoError /\ o.result > 0))
        /\ repeat' = Completed
        /\ cancel' = c
        /\ jobChanged' = (jobChanged /\ ~(kind = "IA" /\ o.applied >= 2))
        /\ UNCHANGED <<input, output, kind, available, licenseAPIReady>>

\* A pass whose context is not cancelled.
Pass(o) == PassWith(o, "")

\* The failures to inject into a pass whose run without failure is o: none, or
\* the failure of one API call among those the pass reaches (the failure of a
\* call the pass never makes changes nothing).
Reached(o, faults) == {"none"} \cup ({o.trace[i].step : i \in DOMAIN o.trace} \cap faults)

RSReconcile ==
    /\ kind = "RS"
    /\ queued
    /\ \E fault \in Reached(RS_Reconcile("none"), RSFaults) : Pass(RS_Reconcile(fault))

IAReconcile ==
    /\ kind = "IA"
    /\ queued
    /\ \E fault \in Reached(IA_Reconcile("none"), IAFaults) : Pass(IA_Reconcile(fault))

LSReconcile ==
    /\ kind = "LS"
    /\ queued
    /\ cluster["CR"] = "present"
    /\ Pass(LS_Reconcile)

\* The record of the last pass is kept while the cluster is as the pass left it.
Forget ==
    /\ trace' = <<>>
    /\ calls' = <<>>
    /\ writes' = {}
    /\ result' = 0
    /\ err' = NoError
    /\ repeat' = FALSE
    /\ cancel' = ""

\* An administrator or another controller creates, changes or deletes a
\* prerequisite object or the custom resource; deleting the custom resource
\* garbage-collects what it owns. The event enqueues a request when add()
\* watches the object.
ExternalChange ==
    \E o \in Prereqs(kind) \cup {"CR"} :
    \E v \in Values(o) \ {cluster[o]} :
        /\ (o = "CR" /\ v = "emptyURL") => kind = "IA"
        /\ cluster' = [cluster EXCEPT ![o] = v]
        /\ IF o = "CR" /\ v = "absent"
           THEN /\ owned' = {}
                /\ crStatus' = ""
                /\ finalizers' = {}
                /\ available' = FALSE
                /\ jobChanged' = FALSE
           ELSE UNCHANGED <<owned, crStatus, finalizers, available, jobChanged>>
        /\ queued' = (queued \/ Touched(o, cluster[o], v) \in Watches(kind))
        /\ Forget
        /\ UNCHANGED <<input, output, kind, timer, licenseAPIReady>>

\* The pods of the owned workloads become ready, or stop being ready; no
\* watch of add() covers them.
WorkloadsChange ==
    /\ available' = ~available
    /\ available' => Workloads(kind) \subseteq owned
    /\ Forget
    /\ UNCHANGED <<input, output, kind, cluster, crStatus, finalizers, owned, queued, timer,
                   licenseAPIReady, jobChanged>>

\* The RequeueAfter delay of an earlier pass elapses.
TimerFires ==
    /\ timer
    /\ timer' = FALSE
    /\ queued' = TRUE
    /\ UNCHANGED <<input, output, kind, cluster, crStatus, finalizers, owned, available,
                   trace, calls, writes, result, err, repeat, cancel,
                   licenseAPIReady, jobChanged>>

\* The periodic resync of the informers enqueues a request.
Resync ==
    /\ ~queued
    /\ queued' = TRUE
    /\ UNCHANGED <<input, output, kind, cluster, crStatus, finalizers, owned, available, timer,
                   trace, calls, writes, result, err, repeat, cancel,
                   licenseAPIReady, jobChanged>>

Next ==
    \/ RSReconcile
    \/ IAReconcile
    \/ LSReconcile
    \/ ExternalChange
    \/ WorkloadsChange
    \/ TimerFires
    \/ Resync

Spec == Init /\ [][Next]_vars

----------------------------------------------------------------------------
(* What the claims speak of.                                               *)

PassDone == trace # <<>>
LastStep == trace[Len(trace)]
LastCall == calls[Len(calls)]
StepNames == [i \in DOMAIN trace |-> trace[i].step]
Called(op) == \E i \in DOMAIN calls : calls[i].op = op
\* The pass ended degraded: it called SetDegraded and no ClearDegraded after it.
EndedDegraded == calls # <<>> /\ LastCall.op = "SetDegraded"
\* The pass applied nothing: it did not call CreateOrUpdateOrDelete and the
\* cluster is as the pass found it.
AppliedNothing ==
    /\ writes = {}
    /\ \A i \in DOMAIN trace : trace[i].step \notin {"Apply1", "Apply2", "Apply3"}

----------------------------------------------------------------------------
(* C1: a prerequisite that is not found.                                   *)

\* The reads of the prerequisite objects the claim lists.
C1_Reads ==
    IF kind = "RS"
    THEN {"GetInstallation", "GetPullSecrets", "GetESClusterConfig", "GetESSecrets",
          "GetCertificate"}
    ELSE {"GetInstallation", "GetPullSecrets", "GetConfigMap", "GetCertificate",
          "GetServiceAccount", "GetTokenSecret"}

\* The message of each dependency.
C1_Message(s) ==
    CASE s = "GetInstallation" -> "Installation not found"
      [] s = "GetPullSecrets" ->
            IF kind = "RS" THEN "Error retrieving pull secrets"
            ELSE "Error retrieving image pull secrets"
      [] s = "GetESClusterConfig" ->
            "Elasticsearch cluster configuration is not available, waiting for it to become available"
      [] s = "GetESSecrets" ->
            "Elasticsearch secrets are not available yet, waiting until they become available"
      [] s = "GetCertificate" ->
            IF kind = "RS"
            THEN "Elasticsearch gateway certificate are not available yet, waiting until they become available"
            ELSE "Waiting for internal manager tls certificate to be available"
      [] s = "GetConfigMap" -> "tigera-image-assurance-config ConfigMap not found"
      [] OTHER -> "Error in retrieving scanner API access token"

\* The reads whose not-found is returned as the error of the pass.
C1_ReturnedAsError == {"GetPullSecrets", "GetServiceAccount", "GetTokenSecret"}

C1_NotFound(i) == trace[i].step \in C1_Reads /\ trace[i].out = "notfound"

----------------------------------------------------------------------------
(* C2: a reconciler that waits is woken when the dependency appears.       *)

\* Every dependency of the controller exists and is as Reconcile needs it.
AllDependenciesExist ==
    /\ cluster["CR"] = "present"
    /\ cluster["Installation"] = TigeraSecureEnterprise
    /\ \A o \in Prereqs(kind) \ {"Installation", "ScannerToken", "Authentication"} :
          cluster[o] = "present"
    /\ kind = "IA" => /\ cluster["ScannerToken"] = "token"
                      /\ cluster["Authentication"] # "NotReady"

\* C2: whenever every dependency exists and the custom resource is not yet
\* Ready, a reconcile request is queued or a RequeueAfter delay is pending: no
\* reconciler stays in a waiting state after the dependency it waited for has
\* appeared, so the watches of add() and the timed requeue alone lead it to a
\* pass that can make the custom resource Ready.
C2_WaitingIsWoken ==
    (AllDependenciesExist /\ crStatus # TigeraStatusReady) => (queued \/ timer)

\* RuntimeSecurity waited for the Elasticsearch cluster configuration, which
\* then appeared while nothing was queued.
C2_Stuck ==
    /\ kind = "RS"
    /\ AllDependenciesExist
    /\ crStatus # TigeraStatusReady
    /\ ~queued /\ ~timer

----------------------------------------------------------------------------
(* C3: every failure is visible as Degraded.                               *)

\* C3: a pass that returned a non-nil error called SetDegraded and no
\* ClearDegraded after it.
C3_FailureEndsDegraded == (PassDone /\ err # NoError) => EndedDegraded

\* The Status update of a pass failed.
C3_StatusUpdateFailed == PassDone /\ LastStep = Step("StatusUpdate", "error")

----------------------------------------------------------------------------
(* C4: the owned workloads are not yet available.                          *)

\* C4: a pass that applied every component and found IsAvailable() false
\* returned RequeueAfter = 30 s and a nil error, called ClearDegraded last, made
\* no Status update and left the Status of the custom resource as it was.
C4_NotAvailableRequeues ==
    (PassDone /\ LastStep = Step("IsAvailable", "false")) =>
        /\ result = RequeueDelay
        /\ err = NoError
        /\ LastCall = ClearDegraded
        /\ \A i \in DOMAIN trace : trace[i].step # "StatusUpdate"
        /\ <<"Status", "CR">> \notin writes

C4_Witness ==
    /\ PassDone
    /\ LastStep = Step("IsAvailable", "false")
    /\ crStatus # TigeraStatusReady
    /\ Workloads(kind) \subseteq owned

----------------------------------------------------------------------------
(* C5: the custom resource is not found.                                   *)

\* C5: a pass whose fetch of the custom resource returned not-found called
\* OnCRNotFound and nothing else of the status tracker, returned an empty
\* Result and a nil error, ran no further step and wrote no object.
C5_CRNotFoundStops ==
    (PassDone /\ trace[1] = Step("GetCR", "notfound")) =>
        /\ Len(trace) = 1
        /\ calls = <<OnCRNotFound>>
        /\ result = 0
        /\ err = NoError
        /\ writes = {}

\* An ImageAssurance pass found no custom resource.
C5_Witness ==
    /\ kind = "IA"
    /\ trace = <<Step("GetCR", "notfound")>>
    /\ cluster["Installation"] = TigeraSecureEnterprise

----------------------------------------------------------------------------
(* C6, C7: the variant of the Installation.                                *)

\* C6: a RuntimeSecurity pass that found the custom resource and an
\* Installation of a variant other than TigeraSecureEnterprise ended there
\* with an empty Result and a nil error, degraded with the message "Waiting
\* for network to be TigeraSecureEnterprise", having read no further
\* prerequisite and applied no object.
C6_RSWrongVariantWaits ==
    (/\ kind = "RS"
     /\ PassDone
     /\ Len(trace) >= 2
     /\ trace[2].step = "GetInstallation"
     /\ trace[2].out \notin {"error", "notfound"}
     /\ cluster["Installation"] # TigeraSecureEnterprise) =>
        /\ trace = <<Step("GetCR", "ok"), Step("GetInstallation", "wrong variant")>>
        /\ calls = <<OnCRFound, SetDegraded("Waiting for network to be TigeraSecureEnterprise")>>
        /\ result = 0
        /\ err = NoError
        /\ AppliedNothing

C6_Witness ==
    /\ kind = "RS"
    /\ PassDone
    /\ cluster["Installation"] = Calico
    /\ cluster["PullSecret"] = "present"
    /\ LastStep = Step("GetInstallation", "wrong variant")

\* C7: an ImageAssurance pass that found the custom resource and an
\* Installation of a variant other than TigeraSecureEnterprise ended degraded,
\* with a nil error, and applied no object.
C7_IAWrongVariantWaits ==
    (/\ kind = "IA"
     /\ PassDone
     /\ Len(trace) >= 2
     /\ trace[2].step = "GetInstallation"
     /\ trace[2].out \notin {"error", "notfound"}
     /\ cluster["Installation"] # TigeraSecureEnterprise) =>
        /\ EndedDegraded
        /\ err = NoError
        /\ AppliedNothing

\* ImageAssurance applied its components on an Installation of variant Calico.
C7_AppliedOnCalico ==
    /\ kind = "IA"
    /\ PassDone
    /\ cluster["Installation"] = Calico
    /\ <<"Create", <<"Component", "ImageAssurance">>>> \in writes

----------------------------------------------------------------------------
(* C8: a read fails with an error other than not-found.                    *)

\* The reads of the custom resource and of the prerequisite objects.
C8_Reads ==
    {"GetCR", "GetInstallation", "GetPullSecrets", "GetESClusterConfig", "GetESSecrets",
     "GetCertificate", "GetConfigMap", "ValidateCertPair", "GetServiceAccount",
     "GetTokenSecret", "GetImageSet", "GetAuthentication"}

\* C8: a pass in which a read failed with an error other than not-found ended
\* at that read, called SetDegraded last, returned the error with an empty
\* Result and applied no object.
C8_ReadErrorIsReturned ==
    \A i \in DOMAIN trace :
        (trace[i].step \in C8_Reads /\ trace[i].out = "error") =>
            /\ i = Len(trace)
            /\ EndedDegraded
            /\ err = APIError
            /\ result = 0
            /\ AppliedNothing

\* The read of the configuration ConfigMap failed.
C8_Witness ==
    /\ kind = "IA"
    /\ PassDone
    /\ LastStep = Step("GetConfigMap", "error")
    /\ cluster["ConfigMap"] = "present"

----------------------------------------------------------------------------
(* C9: the order of the steps of a pass.                                   *)

\* A step after which the pass goes on: it succeeded, or it is the read of the
\* optional Authentication that found none.
Continues(st) == st.out \in {"ok", "true"} \/ st = Step("GetAuthentication", "notfound")

\* The steps of the pass are the first steps of the order of the code, and the
\* first step that does not succeed is the last of the pass.
C9_InOrderUntilFirstFailure ==
    /\ Len(trace) <= Len(StepOrder(kind))
    /\ StepNames = SubSeq(StepOrder(kind), 1, Len(trace))
    /\ \A i \in 1..(Len(trace) - 1) : Continues(trace[i])
    /\ (PassDone /\ Len(trace) < Len(StepOrder(kind))) => ~Continues(LastStep)

\* The reads of the prerequisite objects of ImageAssurance.
C9_PrerequisiteReads ==
    {"GetInstallation", "GetPullSecrets", "GetConfigMap", "GetCertificate",
     "ValidateCertPair", "GetServiceAccount", "GetTokenSecret", "GetAuthentication"}

\* C9 as stated: the steps run in the order of the code, the first failing
\* step ends the pass, and no prerequisite is read after the validation of the
\* spec.
C9_ValidationAfterAllReads ==
    /\ C9_InOrderUntilFirstFailure
    /\ \A i, j \in DOMAIN trace :
          (trace[i].step = "ValidateSpec" /\ trace[j].step \in C9_PrerequisiteReads) => j < i

\* C9 amended: the steps run in the order of the code, the first failing step
\* ends the pass, and the validation of the ImageAssurance spec runs after the
\* reads of the Installation, the pull secrets and the configuration ConfigMap
\* and before every other prerequisite read.
C9_ValidationAfterConfigMap ==
    /\ C9_InOrderUntilFirstFailure
    /\ \A i, j \in DOMAIN trace :
          (trace[i].step = "ValidateSpec" /\ trace[j].step \in C9_PrerequisiteReads) =>
              (j < i <=> trace[j].step \in {"GetInstallation", "GetPullSecrets", "GetConfigMap"})

\* A pass read the internal manager TLS secret after it validated the spec.
C9_Witness ==
    /\ kind = "IA"
    /\ \E i, j \in DOMAIN trace :
          /\ trace[i].step = "ValidateSpec"
          /\ trace[j].step = "GetCertificate"
          /\ i < j

----------------------------------------------------------------------------
(* C10: Reconcile is idempotent.                                           *)

\* C10: a pass that follows a completed pass with no change of the cluster
\* between them creates, updates and deletes no object, the API TLS secret
\* included.
C10_SecondPassWritesNothing == repeat => writes = {}

\* ImageAssurance ran a second time after the pass that generated the API TLS
\* secret and created the components.
C10_Witness ==
    /\ kind = "IA"
    /\ repeat
    /\ PassDone
    /\ Completed
    /\ cluster["APICert"] = "present"
    /\ <<"Component", "ImageAssurance">> \in owned

----------------------------------------------------------------------------
(* C11: what a pass writes to its own custom resource.                     *)

\* C11 as stated: no pass of any reconciler changes the Spec or the metadata
\* of its custom resource; the only write to it is the Status update.
C11_OnlyStatusWritten ==
    /\ <<"Spec", "CR">> \notin writes
    /\ <<"Metadata", "CR">> \notin writes
    /\ finalizers = {}

\* C11 amended: no pass changes the Spec of its custom resource; the
\* RuntimeSecurity and ImageAssurance reconcilers write only its Status and
\* leave its metadata alone, while the LogStorage reconciler sets the
\* finalizer tigera.io/eck-cleanup on its custom resource.
C11_OnlyStatusOrLogStorageFinalizer ==
    /\ <<"Spec", "CR">> \notin writes
    /\ <<"Metadata", "CR">> \in writes => kind = "LS"
    /\ finalizers \subseteq (IF kind = "LS" THEN {ECKCleanupFinalizer} ELSE {})
    /\ (kind = "LS" /\ PassDone) => finalizers = {ECKCleanupFinalizer}

\* An ImageAssurance pass wrote Status.State = Ready to a custom resource
\* whose Spec has an APIProxyURL.
C11_Witness ==
    /\ kind = "IA"
    /\ <<"Status", "CR">> \in writes
    /\ cluster["CR"] = "present"
    /\ crStatus = TigeraStatusReady

----------------------------------------------------------------------------
(* C12: the image of the migrator Job is changed after the rollout.        *)

\* The objects of the image assurance component that depend on the migration:
\* the API, scanner and CAW Deployments.
IADeployments == {<<"Component", "ImageAssurance">>}

\* Somebody changes the image of the pod template of the migrator Job that
\* the image assurance component created; add() watches that Job.
JobImageChange ==
    /\ kind = "IA"
    /\ IADeployments \subseteq owned
    /\ ~jobChanged
    /\ jobChanged' = TRUE
    /\ queued' = TRUE
    /\ Forget
    /\ UNCHANGED <<input, output, kind, cluster, crStatus, finalizers, owned, available, timer,
                   licenseAPIReady>>

MigrationNext == Next \/ JobImageChange

MigrationSpec == Init /\ [][MigrationNext]_vars

\* C12: a pass that runs after the image of the migrator Job was changed, and
\* in which nothing fails and nothing is waited for, returns no error and
\* leaves the API, scanner and CAW Deployments absent from the cluster.
C12_JobImageChangeDeletesDeployments ==
    [][(jobChanged /\ IAReconcile /\ Completed') =>
            (err' = NoError /\ IADeployments \cap owned' = {})]_vars

\* The rollout is done, the custom resource is Ready, and the image of the
\* migrator Job has been changed.
C12_JobChangedAfterRollout ==
    /\ kind = "IA"
    /\ jobChanged
    /\ crStatus = TigeraStatusReady
    /\ IADeployments \subseteq owned
    /\ queued

----------------------------------------------------------------------------
(* C13: an empty Spec.APIProxyURL.                                         *)

InvalidSpecError == "APIProxyURL cannot be nil or empty"

----------------------------------------------------------------------------
(* C14: the license API readiness flag.                                    *)

\* utils.WaitToAddLicenseKeyWatch, started by Add as a goroutine, marks the
\* flag once the LicenseKey API is served.
MarkAsReady ==
    /\ ~licenseAPIReady
    /\ licenseAPIReady' = TRUE
    /\ UNCHANGED <<input, output, kind, cluster, crStatus, finalizers, owned, available, queued, timer,
                   trace, calls, writes, result, err, repeat, cancel, jobChanged>>

LicenseNext == Next \/ MarkAsReady

LicenseSpec == Init /\ [][LicenseNext]_vars

\* C14: a RuntimeSecurity or ImageAssurance pass that found its custom
\* resource while the license API readiness flag was not marked ended degraded
\* with "Waiting for LicenseKeyAPI to be ready", returned no error and applied
\* no object. (The flag is never unmarked: it was not marked during the last
\* pass if it is not marked now.)
C14_NotReadyLicenseWaits ==
    (/\ kind \in {"RS", "IA"}
     /\ ~licenseAPIReady
     /\ PassDone
     /\ trace[1] = Step("GetCR", "ok")) =>
        /\ EndedDegraded
        /\ LastCall.msg = "Waiting for LicenseKeyAPI to be ready"
        /\ err = NoError
        /\ AppliedNothing

\* A pass applied the sasha Deployment while the flag was not marked.
C14_AppliedWithoutLicense ==
    /\ kind = "RS"
    /\ ~licenseAPIReady
    /\ <<"Create", <<"Deployment", "sasha">>>> \in writes

----------------------------------------------------------------------------
(* C15: the context of Reconcile is cancelled during a pass.               *)

\* A pass o whose context is cancelled just before its API call t: the pass
\* reaches t.
CancelledPass(o, t) ==
    /\ t \in {st.step : st \in Range(o.trace)}
    /\ PassWith(o, t)

RSReconcileCancelled ==
    /\ kind = "RS"
    /\ queued
    /\ \E t \in APICalls("RS") : CancelledPass(RS_Reconcile(CancelFault[t]), t)

IAReconcileCancelled ==
    /\ kind = "IA"
    /\ queued
    /\ \E t \in APICalls("IA") : CancelledPass(IA_Reconcile(CancelFault[t]), t)

CancelNext == Next \/ RSReconcileCancelled \/ IAReconcileCancelled

CancelSpec == Init /\ [][CancelNext]_vars

\* C15: in a pass whose context was cancelled, the API call before which it
\* was cancelled and every API call after it failed, and the pass returned an
\* error: no API call was carried out with the context cancelled.
C15_NoCallAfterCancellation ==
    cancel # "" =>
        /\ err # NoError
        /\ \A i, j \in DOMAIN trace :
              (trace[i].step = cancel /\ i <= j /\ trace[j].step \in APICalls(kind)) =>
                  trace[j].out = "error"

\* The context of a RuntimeSecurity pass was cancelled before the read of the
\* pull secrets, and the pass went on until ApplyImageSet.
C15_CallsAfterCancellation ==
    /\ kind = "RS"
    /\ cancel = "GetPullSecrets"
    /\ LastStep = Step("ApplyImageSet", "error")
    /\ trace[3] = Step("GetPullSecrets", "ok")

----------------------------------------------------------------------------
(* Rendering as a function of its Config. A behaviour of RenderSpec takes   *)
(* one input and calls the render function it names; no controller runs.    *)

\* The permutations of a set: the orders in which Go may iterate over a map
\* with these keys.
Perms(S) == {f \in [1..Cardinality(S) -> S] : Range(f) = S}

\* Go's order on the strings used as keys here (byte-wise: upper case first).
StringOrder == <<"FOO", "auth0OrgID", "bar", "portalAPIURL">>
StringLess(a, b) ==
    \E i, j \in DOMAIN StringOrder : StringOrder[i] = a /\ StringOrder[j] = b /\ i < j

\* sort.Strings, by insertion.
InsertString(sorted, k) ==
    LET n == Cardinality({i \in DOMAIN sorted : StringLess(sorted[i], k)})
    IN  SubSeq(sorted, 1, n) \o <<k>> \o SubSeq(sorted, n + 1, Len(sorted))

\* The keys left in the order of the map iteration.
SortStrings_Unsorted(keys) == keys

RECURSIVE SortStrings(_)
SortStrings(keys) ==
    IF keys = <<>> THEN <<>> ELSE InsertString(SortStrings(Tail(keys)), Head(keys))

EnvVar(name, value) == [Name |-> name, Value |-> value]

\* The env vars of the keys with no legacy key: every key yields key=value.
ExtraEnvVars_NoLegacyKeys(keys, extraEnv) ==
    [i \in DOMAIN keys |-> EnvVar(keys[i], extraEnv[keys[i]])]

\* The env vars of the keys of ManagerExtraEnv, taken in the given order.
RECURSIVE ExtraEnvVars(_, _)
ExtraEnvVars(keys, extraEnv) ==
    IF keys = <<>> THEN <<>>
    ELSE LET key == Head(keys)
             val == extraEnv[key]
         IN  (IF key = "portalAPIURL"
              THEN <<EnvVar("CNX_PORTAL_URL", val), EnvVar("ENABLE_PORTAL_SUPPORT", "true")>>
              ELSE IF key = "auth0OrgID"
              THEN <<EnvVar("CNX_AUTH0_ORG_ID", val)>>
              ELSE <<EnvVar(key, val)>>)
             \o ExtraEnvVars(Tail(keys), extraEnv)

\* managerComponent.setManagerCloudEnvs for a manager whose cloud resources
\* are c and a ManagerExtraEnv map that Go iterates in the order iteration.
setManagerCloudEnvs(envs, c, iteration) ==
    envs
    \o <<EnvVar("ENABLE_MANAGED_CLUSTERS_ONLY", "true"),
         EnvVar("LICENSE_EDITION", "cloudEdition")>>
    \o (IF c.ImageAssuranceResources
        THEN <<EnvVar("ENABLE_IMAGE_ASSURANCE_SUPPORT", "true"),
               EnvVar("CNX_IMAGE_ASSURANCE_API_URL", "/bast/v1"),
               [Name |-> "CNX_IMAGE_ASSURANCE_ORGANIZATION_ID",
                ValueFrom |-> <<"ConfigurationConfigMapName", "ConfigurationConfigMapOrgIDKey">>],
               EnvVar("IMAGE_ASSURANCE_SCANNER_CLI_TOKEN_SECRET_NAME", "ScannerCLITokenSecretName"),
               EnvVar("IMAGE_ASSURANCE_SCANNER_CLI_DOWNLOAD_URL", "ScannerCLIDownloadURL")>>
        ELSE <<>>)
    \o ExtraEnvVars(SortStrings(iteration), c.ManagerExtraEnv)

\* managerComponent.addCloudResources.
addCloudResources(objs, c) ==
    objs
    \o (IF c.ImageAssuranceResources
        THEN <<<<"Secret", "ImageAssuranceSecretName">>,
               <<"ConfigMap", "ConfigurationConfigMapName">>,
               <<"NetworkPolicy", "ImageAssurancePolicyName">>>>
        ELSE <<>>)
    \o (IF c.CloudRBACResources
        THEN <<<<"Secret", "cloudrbac.TLSSecretName">>,
               <<"NetworkPolicy", "CloudRBACPPIPolicyName">>>>
        ELSE <<>>)

\* The cloud decoration of the manager: its env vars and its objects.
ManagerCloud(c, iteration) ==
    [envs |-> setManagerCloudEnvs(c.envs, c, iteration),
     create |-> addCloudResources(c.objs, c)]

\* apiService with the name of the Deployment where that of the Service
\* belongs.
apiService_WrongService(cr) ==
    [kind |-> "APIService", name |-> "v3.projectcalico.org", namespace |-> "",
     service |-> [name |-> "tigera-apiserver", namespace |-> "tigera-system"]]

\* apiService(cr): the APIService and the Service it is served by.
apiService(cr) ==
    [kind |-> "APIService", name |-> "v3.projectcalico.org", namespace |-> "",
     service |-> [name |-> "tigera-api", namespace |-> "tigera-system"]]

\* APIServer(cr) of the render package: nothing unless the variant is
\* TigeraSecureEnterprise; the image of both containers is the override when
\* one is given. Each object carries the names it refers to. The Core sets no
\* extra volumes, mounts or tolerations.
APIServer(cr) ==
    IF cr.Variant # TigeraSecureEnterprise THEN <<>>
    ELSE LET image(name) == IF cr.ImageOverride # "" THEN cr.ImageOverride
                            ELSE cr.Registry \o name \o ":" \o cr.Version
             account == [kind |-> "ServiceAccount", name |-> "tigera-apiserver",
                         namespace |-> "tigera-system"]
         IN <<[kind |-> "Deployment", name |-> "tigera-apiserver",
               namespace |-> "tigera-system",
               serviceAccountName |-> "tigera-apiserver",
               containers |-> <<[Name |-> "tigera-apiserver", Image |-> image("tigera/apiserver"),
                                 VolumeMounts |-> <<"tigera-audit-logs", "tigera-audit-policy">>],
                                [Name |-> "tigera-queryserver", Image |-> image("tigera/queryserver"),
                                 VolumeMounts |-> <<>>]>>,
               volumes |-> <<[Name |-> "tigera-audit-logs", ConfigMap |-> ""],
                             [Name |-> "tigera-audit-policy", ConfigMap |-> "tigera-audit-policy"]>>,
               pullSecrets |-> cr.ImagePullSecretsRef],
              [kind |-> "ConfigMap", name |-> "tigera-audit-policy", namespace |-> "tigera-system"],
              account,
              apiService(cr),
              [kind |-> "Service", name |-> "tigera-api", namespace |-> "tigera-system"],
              [kind |-> "ClusterRole", name |-> "tigera-tiered-policy-passthrough", namespace |-> ""],
              [kind |-> "ClusterRoleBinding", name |-> "tigera-tiered-policy-passthrough",
               namespace |-> "",
               subjects |-> <<[kind |-> "Group", name |-> "system:authenticated", namespace |-> ""],
                              [kind |-> "Group", name |-> "system:unauthenticated", namespace |-> ""]>>,
               roleRef |-> [kind |-> "ClusterRole", name |-> "tigera-tiered-policy-passthrough"]],
              [kind |-> "ClusterRoleBinding", name |-> "tigera-apiserver-delegate-auth",
               namespace |-> "",
               subjects |-> <<account>>,
               roleRef |-> [kind |-> "ClusterRole", name |-> "system:auth-delegator"]],
              [kind |-> "RoleBinding", name |-> "tigera-auth-reader",
               namespace |-> "tigera-system",
               subjects |-> <<account>>,
               roleRef |-> [kind |-> "Role",
                            name |-> "extension-apiserver-authentication-reader"]]>>

\* component.sashaDeployment: the pod of the sasha Deployment.
sashaDeployment(c) ==
    [containers |->
        <<[Name |-> "sasha", Image |-> c.sashaImage],
          [Name |-> "threat-id", Image |-> c.threatIdImage,
           LivenessProbe |-> <<"bin/grpc_health_probe-linux-amd64", "-addr", "127.0.0.1:50051">>,
           ReadinessProbe |-> <<"bin/grpc_health_probe-linux-amd64", "-addr", "127.0.0.1:50051">>]>>,
     imagePullSecrets |-> c.PullSecrets]

\* component.Objects() of RuntimeSecurity with the content of its Deployment.
\* A Config without TrustedBundle makes the call on it panic, and so does the
\* read of the Sasha resources of a Config without RuntimeSecuritySpec.
Panic == [panic |-> "nil pointer dereference"]
RuntimeSecurityObjects(c) ==
    IF c.TrustedBundle = "nil" THEN Panic
    ELSE IF Len(c.SashaESSecrets) > 0 /\ c.RuntimeSecuritySpec = "nil" THEN Panic
    ELSE [create |-> RSObjects(c).create,
          delete |-> RSObjects(c).delete,
          pod |-> IF Len(c.SashaESSecrets) > 0 THEN sashaDeployment(c) ELSE <<>>]

\* component.ResolveImages with no ImageSet: the images are set unless the
\* OS type is not the supported one.
ResolveImages(c) ==
    IF c.OsType # "linux" THEN c
    ELSE [c EXCEPT !.sashaImage = "tigera/sasha", !.threatIdImage = "tigera/threat-id"]

\* The inputs of a behaviour.
RSConfigs ==
    [fn : {"RuntimeSecurity"},
     PullSecrets : {<<>>, <<"tigera-pull-secret">>},
     SashaESSecrets : {<<>>, <<"tigera-ee-sasha-elasticsearch-access">>},
     TrustedBundle : {"nil", "bundle"},
     RuntimeSecuritySpec : {"nil", "defaults"},
     OsType : {"linux", "windows"},
     sashaImage : {""}, threatIdImage : {""}]

ExtraEnvValues == {"a", "b"}
ExtraEnvs == UNION {[K -> ExtraEnvValues] : K \in SUBSET Range(StringOrder)}

ManagerConfigs ==
    [fn : {"ManagerCloud"},
     ImageAssuranceResources : BOOLEAN,
     CloudRBACResources : BOOLEAN,
     ManagerExtraEnv : ExtraEnvs,
     envs : {<<>>, <<EnvVar("FOO", "given")>>}, objs : {<<>>}]

Cores ==
    [fn : {"APIServer"},
     Variant : {Calico, TigeraSecureEnterprise},
     ImageOverride : {"", "example.com/apiserver:dev"},
     Registry : {"", "quay.io/"},
     Version : {"v2.4.0"},
     ImagePullSecretsRef : {<<>>, <<"tigera-pull-secret">>}]

\* The ImageAssurance component's Objects(), as its rendering tests state it.
\* The names are those of the constants of the imageassurance package.
IABaseObjects ==
    <<<<"Namespace", "NameSpaceImageAssurance">>,
      <<"Secret", "PGCertSecretName">>,
      <<"Secret", "PGUserSecretName">>,
      <<"Secret", "PGAdminUserSecretName">>,
      <<"ConfigMap", "PGConfigMapName">>>>
IAMigratorObjects ==
    <<<<"ServiceAccount", "ResourceNameImageAssuranceDBMigrator">>,
      <<"Role", "ResourceNameImageAssuranceDBMigrator">>,
      <<"RoleBinding", "ResourceNameImageAssuranceDBMigrator">>,
      <<"Job", "ResourceNameImageAssuranceDBMigrator">>>>
IAAPIObjects ==
    <<<<"Secret", "APICertSecretName">>,
      <<"Secret", "ManagerCertSecretName">>,
      <<"ServiceAccount", "ResourceNameImageAssuranceAPI">>,
      <<"Role", "ResourceNameImageAssuranceAPI">>,
      <<"RoleBinding", "ResourceNameImageAssuranceAPI">>,
      <<"ClusterRole", "ResourceNameImageAssuranceAPI">>,
      <<"ClusterRoleBinding", "ResourceNameImageAssuranceAPI">>,
      <<"Service", "ResourceNameImageAssuranceAPI">>,
      <<"Deployment", "ResourceNameImageAssuranceAPI">>>>
IAScannerObjects ==
    <<<<"ServiceAccount", "ResourceNameImageAssuranceScanner">>,
      <<"Role", "ResourceNameImageAssuranceScanner">>,
      <<"RoleBinding", "ResourceNameImageAssuranceScanner">>,
      <<"Deployment", "ResourceNameImageAssuranceScanner">>>>

\* An Objects() that renders the API and the scanner whatever the migration
\* state is.
ImageAssuranceObjects_Ungated(c, keepMigrator) ==
    [create |-> IABaseObjects \o IAMigratorObjects \o IAAPIObjects \o IAScannerObjects,
     delete |-> <<>>]

\* The create and delete lists for a Config. The tests do not tell whether
\* the migrator resources stay in the create list while the components are
\* being deleted: keepMigrator is either.
ImageAssuranceObjects(c, keepMigrator) ==
    IF c.NeedsMigrating /\ c.ComponentsUp
    THEN [create |-> IABaseObjects \o (IF keepMigrator THEN SubSeq(IAMigratorObjects, 1, 3) ELSE <<>>),
          delete |-> <<IAMigratorObjects[4], IAAPIObjects[9], IAScannerObjects[4]>>]
    ELSE IF c.NeedsMigrating
    THEN [create |-> IABaseObjects \o IAMigratorObjects, delete |-> <<>>]
    ELSE [create |-> IABaseObjects \o IAMigratorObjects \o IAAPIObjects \o IAScannerObjects,
          delete |-> <<>>]

IAConfigs ==
    [fn : {"ImageAssurance"}, PullSecrets : {<<>>},
     NeedsMigrating : BOOLEAN, ComponentsUp : BOOLEAN]

RenderInit ==
    /\ CtrlInit
    /\ kind = "RS"
    /\ owned = {}
    /\ input \in RSConfigs \cup ManagerConfigs \cup Cores \cup IAConfigs
    /\ output = <<>>

\* Objects() called twice on a Config, and once more after ResolveImages.
RenderRuntimeSecurity ==
    /\ input.fn = "RuntimeSecurity"
    /\ output = <<>>
    /\ output' = [first |-> RuntimeSecurityObjects(input),
                  second |-> RuntimeSecurityObjects(input),
                  resolved |-> RuntimeSecurityObjects(ResolveImages(input))]
    /\ UNCHANGED <<ctrlVars, input>>

\* The manager decorated twice; each time Go iterates over ManagerExtraEnv in
\* an order of its own.
RenderManagerCloud ==
    /\ input.fn = "ManagerCloud"
    /\ output = <<>>
    /\ \E it1, it2 \in Perms(DOMAIN input.ManagerExtraEnv) :
          output' = [first |-> ManagerCloud(input, it1),
                     second |-> ManagerCloud(input, it2)]
    /\ UNCHANGED <<ctrlVars, input>>

\* APIServer called twice on a Core resource.
RenderAPIServer ==
    /\ input.fn = "APIServer"
    /\ output = <<>>
    /\ output' = [first |-> [create |-> APIServer(input)],
                  second |-> [create |-> APIServer(input)]]
    /\ UNCHANGED <<ctrlVars, input>>

\* Objects() of ImageAssurance called twice on a Config.
RenderImageAssurance ==
    /\ input.fn = "ImageAssurance"
    /\ output = <<>>
    /\ \E keepMigrator \in BOOLEAN :
          output' = [first |-> ImageAssuranceObjects(input, keepMigrator),
                     second |-> ImageAssuranceObjects(input, keepMigrator)]
    /\ UNCHANGED <<ctrlVars, input>>

RenderNext ==
    \/ RenderRuntimeSecurity
    \/ RenderManagerCloud
    \/ RenderAPIServer
    \/ RenderImageAssurance

RenderSpec == RenderInit /\ [][RenderNext]_vars

----------------------------------------------------------------------------
(* C16: rendering is deterministic and touches no cluster state.           *)

----------------------------------------------------------------------------
(* The cloud config and its ConfigMap form. A behaviour of CloudConfigSpec  *)
(* takes a ConfigMap and parses it, or takes a CloudConfig, writes it as a  *)
(* ConfigMap and parses that.                                              *)

CloudConfigConfigMapName == "tigera-secure-cloud-config"
OperatorNamespace == "tigera-operator"
Nil == "nil"

\* configMap.Data[k]: the zero value for a key that is not in the map.
DataOf(data, k) == IF k \in DOMAIN data THEN data[k] ELSE ""

\* strconv.ParseBool and strconv.FormatBool.
ParseBoolTrue == {"1", "t", "T", "TRUE", "true", "True"}
ParseBoolFalse == {"0", "f", "F", "FALSE", "false", "False"}
ParseBool(str) ==
    IF str \in ParseBoolTrue THEN [val |-> TRUE, err |-> Nil]
    ELSE IF str \in ParseBoolFalse THEN [val |-> FALSE, err |-> Nil]
    ELSE [val |-> FALSE, err |-> "strconv.ParseBool: invalid syntax"]
\* A FormatBool that writes yes and no.
FormatBool_YesNo(b) == IF b THEN "yes" ELSE "no"
FormatBool(b) == IF b THEN "true" ELSE "false"

NewCloudConfig(tenantId, tenantName, externalESDomain, externalKibanaDomain, enableMTLS) ==
    [tenantId |-> tenantId, tenantName |-> tenantName,
     externalESDomain |-> externalESDomain,
     externalKibanaDomain |-> externalKibanaDomain, enableMTLS |-> enableMTLS]

\* NewCloudConfigFromConfigMap without the check of externalKibanaDomain.
NewCloudConfigFromConfigMap_NoKibanaCheck(configMap) ==
    LET d == configMap.Data
        b == ParseBool(DataOf(d, "enableMTLS"))
    IN  IF DataOf(d, "tenantId") = "" \/ DataOf(d, "tenantName") = ""
           \/ DataOf(d, "externalESDomain") = ""
           \/ (DataOf(d, "enableMTLS") # "" /\ b.err # Nil)
        THEN [cc |-> Nil, err |-> "error"]
        ELSE [cc |-> NewCloudConfig(DataOf(d, "tenantId"), DataOf(d, "tenantName"),
                                    DataOf(d, "externalESDomain"),
                                    DataOf(d, "externalKibanaDomain"),
                                    DataOf(d, "enableMTLS") # "" /\ b.val),
              err |-> Nil]

\* NewCloudConfigFromConfigMap: the CloudConfig and the error it returns.
NewCloudConfigFromConfigMap(configMap) ==
    LET d == configMap.Data IN
    IF DataOf(d, "tenantId") = "" THEN [cc |-> Nil, err |-> "'tenantId' is not set"]
    ELSE IF DataOf(d, "tenantName") = "" THEN [cc |-> Nil, err |-> "'tenantName' is not set"]
    ELSE IF DataOf(d, "externalESDomain") = ""
    THEN [cc |-> Nil, err |-> "'externalESDomain' is not set"]
    ELSE IF DataOf(d, "externalKibanaDomain") = ""
    THEN [cc |-> Nil, err |-> "'externalKibanaDomain' is not set"]
    ELSE LET b == IF DataOf(d, "enableMTLS") = "" THEN [val |-> FALSE, err |-> Nil]
                  ELSE ParseBool(DataOf(d, "enableMTLS"))
         IN  IF b.err # Nil THEN [cc |-> Nil, err |-> "'enableMTLS' must be a bool"]
             ELSE [cc |-> NewCloudConfig(DataOf(d, "tenantId"), DataOf(d, "tenantName"),
                                         DataOf(d, "externalESDomain"),
                                         DataOf(d, "externalKibanaDomain"), b.val),
                   err |-> Nil]

\* CloudConfig.ConfigMap.
CloudConfigMap(c) ==
    [Name |-> CloudConfigConfigMapName,
     Namespace |-> OperatorNamespace,
     Data |-> [tenantId |-> c.tenantId, tenantName |-> c.tenantName,
               externalESDomain |-> c.externalESDomain,
               externalKibanaDomain |-> c.externalKibanaDomain,
               enableMTLS |-> FormatBool(c.enableMTLS)]]

\* The inputs: ConfigMaps in which each key is missing, empty or set, and
\* CloudConfigs whose string fields are empty or set.
StringKeys == {"tenantId", "tenantName", "externalESDomain", "externalKibanaDomain"}
ValueOf(k) ==
    CASE k = "tenantId" -> "abc123"
      [] k = "tenantName" -> "tenant1"
      [] k = "externalESDomain" -> "externalES.com"
      [] k = "externalKibanaDomain" -> "externalKibana.com"
MTLSValues == {"", "true", "false", "1", "F", "True", "truee", "yes"}
ConfigMapData ==
    UNION {
      UNION { { [k \in K \cup M |->
                    IF k = "enableMTLS" THEN v
                    ELSE IF k \in E THEN "" ELSE ValueOf(k)] : v \in MTLSValues }
              : E \in SUBSET K }
      : K \in SUBSET StringKeys, M \in {{}, {"enableMTLS"}} }
ConfigMaps ==
    [fn : {"FromConfigMap"}, Name : {CloudConfigConfigMapName},
     Namespace : {OperatorNamespace}, Data : ConfigMapData]
CloudConfigs ==
    [fn : {"ToConfigMap"},
     tenantId : {"", "abc123", "def456"}, tenantName : {"", "tenant1"},
     externalESDomain : {"", "externalES.com"},
     externalKibanaDomain : {"", "externalKibana.com"},
     enableMTLS : BOOLEAN]

\* The CloudConfig an input stands for.
AsCloudConfig(i) ==
    NewCloudConfig(i.tenantId, i.tenantName, i.externalESDomain,
                   i.externalKibanaDomain, i.enableMTLS)

CloudConfigInit ==
    /\ CtrlInit
    /\ kind = "IA"
    /\ input \in ConfigMaps \cup CloudConfigs
    /\ output = <<>>

\* NewCloudConfigFromConfigMap called on a ConfigMap.
FromConfigMap ==
    /\ input.fn = "FromConfigMap"
    /\ output = <<>>
    /\ output' = NewCloudConfigFromConfigMap(input)
    /\ UNCHANGED <<ctrlVars, input>>

\* ConfigMap() called on a CloudConfig, and the result parsed back.
ToConfigMapAndBack ==
    /\ input.fn = "ToConfigMap"
    /\ output = <<>>
    /\ output' = [configMap |-> CloudConfigMap(AsCloudConfig(input)),
                  back |-> NewCloudConfigFromConfigMap(CloudConfigMap(AsCloudConfig(input)))]
    /\ UNCHANGED <<ctrlVars, input>>

CloudConfigNext == FromConfigMap \/ ToConfigMapAndBack

CloudConfigSpec == CloudConfigInit /\ [][CloudConfigNext]_vars

----------------------------------------------------------------------------
(* C17: the errors of NewCloudConfigFromConfigMap.                         *)

\* C17: NewCloudConfigFromConfigMap returns an error and no CloudConfig when
\* one of tenantId, tenantName, externalESDomain, externalKibanaDomain is
\* missing or empty, or enableMTLS is non-empty and not a boolean; otherwise
\* it returns no error and a CloudConfig whose fields are the entries of the
\* map, enableMTLS being false when the key is missing or empty.
C17_FromConfigMapErrors ==
    (output # <<>> /\ input.fn = "FromConfigMap") =>
        LET d == input.Data
            unset(k) == k \notin DOMAIN d \/ d[k] = ""
            mtls == IF unset("enableMTLS") THEN "false" ELSE d["enableMTLS"]
        IN  IF (\E k \in StringKeys : unset(k))
               \/ mtls \notin ParseBoolTrue \cup ParseBoolFalse
            THEN output.err # Nil /\ output.cc = Nil
            ELSE /\ output.err = Nil
                 /\ \A k \in StringKeys : output.cc[k] = d[k]
                 /\ output.cc.enableMTLS = (mtls \in ParseBoolTrue)

\* A ConfigMap with its four names set and no enableMTLS key was parsed into
\* a CloudConfig with enableMTLS false; or one with enableMTLS "truee" was
\* refused.
C17_Witness ==
    /\ output # <<>>
    /\ input.fn = "FromConfigMap"
    /\ \/ /\ DOMAIN input.Data = StringKeys
          /\ output.err = Nil
          /\ output.cc.enableMTLS = FALSE
          /\ output.cc.tenantId = "abc123"
       \/ /\ DataOf(input.Data, "enableMTLS") = "truee"
          /\ output = [cc |-> Nil, err |-> "'enableMTLS' must be a bool"]

----------------------------------------------------------------------------
(* C18: a CloudConfig survives the way through its ConfigMap.              *)

\* C18: for a CloudConfig whose four names are non-empty, parsing its
\* ConfigMap succeeds and gives the CloudConfig back; and the ConfigMap of any
\* CloudConfig is named tigera-secure-cloud-config, is in the operator
\* namespace and has exactly the five keys, enableMTLS being "true" or "false".
C18_ConfigMapRoundTrip ==
    (output # <<>> /\ input.fn = "ToConfigMap") =>
        /\ (\A k \in StringKeys : input[k] # "") =>
              output.back = [cc |-> AsCloudConfig(input), err |-> Nil]
        /\ output.configMap.Name = "tigera-secure-cloud-config"
        /\ output.configMap.Namespace = OperatorNamespace
        /\ DOMAIN output.configMap.Data = StringKeys \cup {"enableMTLS"}
        /\ output.configMap.Data["enableMTLS"] \in {"true", "false"}
        /\ output.configMap.Data["enableMTLS"] = "true" <=> input.enableMTLS

\* A CloudConfig with mTLS enabled and every name set went through its
\* ConfigMap and came back.
C18_Witness ==
    /\ output # <<>>
    /\ input.fn = "ToConfigMap"
    /\ input.enableMTLS
    /\ \A k \in StringKeys : input[k] # ""
    /\ output.configMap.Data["enableMTLS"] = "true"
    /\ output.back.err = Nil
    /\ output.back.cc.enableMTLS

----------------------------------------------------------------------------
(* C19: the objects of RuntimeSecurity for the default configuration.      *)

\* The input is a Config with no pull secrets and one Sasha Elasticsearch
\* secret, and Objects() was called on it.
DefaultRuntimeSecurity ==
    /\ output # <<>>
    /\ input.fn = "RuntimeSecurity"
    /\ input.PullSecrets = <<>>
    /\ input.SashaESSecrets = <<"tigera-ee-sasha-elasticsearch-access">>

\* C19: for a Config with no pull secrets and one Sasha Elasticsearch secret,
\* Objects() returns exactly four objects to create, in the order Namespace
\* tigera-runtime-security, Secret tigera-ee-sasha-elasticsearch-access,
\* ServiceAccount sasha, Deployment sasha; the pod of the Deployment has two
\* containers, the second of which, threat-id, has liveness and readiness
\* probes that run bin/grpc_health_probe-linux-amd64; and the list is the same
\* after ResolveImages as before.
C19_FourObjects ==
    DefaultRuntimeSecurity =>
        /\ output.first # Panic
        /\ output.first.create = <<<<"Namespace", "tigera-runtime-security">>,
                                   <<"Secret", "tigera-ee-sasha-elasticsearch-access">>,
                                   <<"ServiceAccount", "sasha">>,
                                   <<"Deployment", "sasha">>>>
        /\ Len(output.first.pod.containers) = 2
        /\ output.first.pod.containers[2].Name = "threat-id"
        /\ "bin/grpc_health_probe-linux-amd64" \in Range(output.first.pod.containers[2].LivenessProbe)
        /\ "bin/grpc_health_probe-linux-amd64" \in Range(output.first.pod.containers[2].ReadinessProbe)
        /\ output.resolved # Panic
        /\ output.resolved.create = output.first.create

\* Objects() was called on such a Config that has a trusted bundle and a
\* RuntimeSecuritySpec, and returned five objects: the ConfigMap of the trusted
\* bundle comes second.
C19_FiveObjects ==
    /\ DefaultRuntimeSecurity
    /\ output.first # Panic
    /\ Len(output.first.create) = 5
    /\ output.first.create[2] = <<"ConfigMap", "tigera-ca-bundle">>
    /\ output.first.create[5] = <<"Deployment", "sasha">>
    /\ output.first.pod.containers[2].Name = "threat-id"

----------------------------------------------------------------------------
(* C20: the ImageAssurance objects follow the migration state.             *)

\* The objects of a list that belong to the API or to the scanner.
APIOrScanner(objs) ==
    {o \in Range(objs) : o[2] \in {"ResourceNameImageAssuranceAPI",
                                   "ResourceNameImageAssuranceScanner",
                                   "APICertSecretName", "ManagerCertSecretName"}}

\* C20: with NeedsMigrating and not ComponentsUp the create list holds only
\* the namespace, the copied Postgres secrets and config map and the migrator
\* ServiceAccount, Role, RoleBinding and Job, and no API or scanner object;
\* with NeedsMigrating and ComponentsUp the delete list is the migrator Job,
\* the API Deployment, the scanner Deployment, in that order; without
\* NeedsMigrating the create list holds the API and scanner resources too,
\* after the migrator resources.
C20_RenderGatedByMigration ==
    (output # <<>> /\ input.fn = "ImageAssurance") =>
        LET objs == output.first IN
        /\ (input.NeedsMigrating /\ ~input.ComponentsUp) =>
              /\ objs.create = IABaseObjects \o IAMigratorObjects
              /\ APIOrScanner(objs.create) = {}
        /\ (input.NeedsMigrating /\ input.ComponentsUp) =>
              objs.delete = <<<<"Job", "ResourceNameImageAssuranceDBMigrator">>,
                              <<"Deployment", "ResourceNameImageAssuranceAPI">>,
                              <<"Deployment", "ResourceNameImageAssuranceScanner">>>>
        /\ ~input.NeedsMigrating =>
              /\ SubSeq(objs.create, 1, 9) = IABaseObjects \o IAMigratorObjects
              /\ Len(objs.create) > 9
              /\ APIOrScanner(SubSeq(objs.create, 10, Len(objs.create)))
                    = Range(IAAPIObjects) \cup Range(IAScannerObjects)

\* Objects() was called on a Config that needs migrating with its components
\* down, and the create list ends with the migrator Job.
C20_Witness ==
    /\ output # <<>>
    /\ input.fn = "ImageAssurance"
    /\ input.NeedsMigrating
    /\ ~input.ComponentsUp
    /\ Len(output.first.create) = 9
    /\ output.first.create[9] = <<"Job", "ResourceNameImageAssuranceDBMigrator">>

----------------------------------------------------------------------------
(* The cloud resources of the manager. A behaviour of CloudResourcesSpec    *)
(* takes the outcome of each read handleCloudResources can make and calls   *)
(* it once.                                                                *)

EmptyResult == "reconcile.Result{}"

\* The ManagerCloudResources handleCloudResources hands back.
ManagerCloudResources(ia, tenant) == [ImageAssuranceResources |-> ia, TenantID |-> tenant]

\* What handleCloudResources returns: the resources, the pointer to a Result
\* (Nil or an empty Result), the error, and its SetDegraded calls.
CloudReturn(mcr, res, e, degraded) ==
    [mcr |-> mcr, result |-> res, err |-> e, calls |-> degraded]

\* The last part of handleCloudResources: the cloud config, read only with an
\* external Elasticsearch.
GetCloudConfigStep(in, mcr) ==
    IF ~in.elasticExternal THEN CloudReturn(mcr, Nil, Nil, <<>>)
    ELSE IF in.CloudConfig = "notfound"
    THEN CloudReturn(mcr, EmptyResult, Nil,
                     <<SetDegraded("Failed to retrieve External Elasticsearch config map")>>)
    ELSE IF in.CloudConfig = "error"
    THEN CloudReturn(mcr, EmptyResult, "error", <<SetDegraded("Unable to read cloud config map")>>)
    ELSE CloudReturn([mcr EXCEPT !.TenantID = "tenantId"], Nil, Nil, <<>>)

\* ReconcileManager.handleCloudResources for the read outcomes in.
handleCloudResources(in) ==
    LET mcr == ManagerCloudResources(FALSE, "") IN
    IF in.ImageAssurance = "notfound" THEN CloudReturn(mcr, Nil, Nil, <<>>)
    ELSE IF in.ImageAssurance = "error"
    THEN CloudReturn(mcr, Nil, "error",
                     <<SetDegraded("failed to check for Image Assurance existence: %s")>>)
    ELSE IF in.TLSSecret = "error"
    THEN CloudReturn(mcr, Nil, "error", <<SetDegraded("Failed to retrieve secret")>>)
    ELSE IF in.TLSSecret = "nil"
    THEN CloudReturn(mcr, EmptyResult, Nil,
                     <<SetDegraded("waiting for secret to become available")>>)
    ELSE IF in.ConfigMap = "notfound"
    THEN CloudReturn(mcr, EmptyResult, Nil,
                     <<SetDegraded("waiting for configmap to become available")>>)
    ELSE IF in.ConfigMap = "error"
    THEN CloudReturn(mcr, Nil, "error", <<SetDegraded("failed to retrieve configmap")>>)
    ELSE GetCloudConfigStep(in, ManagerCloudResources(TRUE, ""))

\* The outcomes of the reads: the Image Assurance CR, its TLS secret (a nil
\* secret is one that does not exist), its configuration ConfigMap, the cloud
\* config map.
CloudReads ==
    [fn : {"handleCloudResources"},
     ImageAssurance : {"ok", "notfound", "error"},
     TLSSecret : {"ok", "nil", "error"},
     ConfigMap : {"ok", "notfound", "error"},
     elasticExternal : BOOLEAN,
     CloudConfig : {"ok", "notfound", "error"}]

CloudResourcesInit ==
    /\ CtrlInit
    /\ kind = "IA"
    /\ input \in CloudReads
    /\ output = <<>>

HandleCloudResources ==
    /\ input.fn = "handleCloudResources"
    /\ output = <<>>
    /\ output' = handleCloudResources(input)
    /\ UNCHANGED <<ctrlVars, input>>

CloudResourcesNext == HandleCloudResources

CloudResourcesSpec == CloudResourcesInit /\ [][CloudResourcesNext]_vars

----------------------------------------------------------------------------
(* C21: when handleCloudResources returns a Result.                        *)

\* The call ended waiting for a resource: the TLS secret is absent, the
\* configuration ConfigMap is not found, or the cloud config map is not found.
CloudWaiting ==
    /\ input.ImageAssurance = "ok"
    /\ \/ input.TLSSecret = "nil"
       \/ input.TLSSecret = "ok" /\ input.ConfigMap = "notfound"
       \/ /\ input.TLSSecret = "ok" /\ input.ConfigMap = "ok"
          /\ input.elasticExternal /\ input.CloudConfig = "notfound"

----------------------------------------------------------------------------
(* The request of a pass. A behaviour of RequestSpec takes a cluster state  *)
(* and two requests, and runs Reconcile on that state once for each.        *)

\* utils.DefaultTSEEInstanceKey, the key of the singleton custom resource.
DefaultTSEEInstanceKey == [Namespace |-> "", Name |-> "tigera-secure"]

\* The requests a work queue may hand to Reconcile: the key of the custom
\* resource, or the key of a watched object.
Requests == {DefaultTSEEInstanceKey,
             [Namespace |-> "tigera-runtime-security", Name |-> "sasha"]}

\* The custom resource looked up under the key of the request.
InstanceKey_FromRequest(request) == request

\* The key Reconcile reads its custom resource with: the one of the default
\* instance; the request goes to the logger only.
InstanceKey(request) == DefaultTSEEInstanceKey

\* Reconcile(ctx, request) of controller k.
Reconcile(k, request, fault) ==
    IF InstanceKey(request) # DefaultTSEEInstanceKey /\ fault # "GetCR"
    THEN Return(<<Step("GetCR", "notfound")>>, <<OnCRNotFound>>, 0, NoError, 0, FALSE, "")
    ELSE IF k = "RS" THEN RS_Reconcile(fault) ELSE IA_Reconcile(fault)

\* The cluster states a pass may find.
RSClusters ==
    [CR : {"absent", "present"}, Installation : Values("Installation"),
     PullSecret : {"absent", "present"}, ESClusterConfig : {"absent", "present"},
     SashaESSecret : {"absent", "present"}, ESGatewayCert : {"absent", "present"},
     ConfigMap : {"absent"}, ManagerTLS : {"absent"}, APICert : {"absent"},
     ScannerToken : {"noServiceAccount"}, Authentication : {"absent"}]
IAClusters ==
    [CR : Values("CR"), Installation : Values("Installation"),
     PullSecret : {"absent", "present"}, ConfigMap : {"absent", "present"},
     ManagerTLS : {"absent", "present"}, APICert : {"absent", "present"},
     ScannerToken : Values("ScannerToken"), Authentication : Values("Authentication"),
     ESClusterConfig : {"absent"}, SashaESSecret : {"absent"}, ESGatewayCert : {"absent"}]

RequestInit ==
    /\ kind \in {"RS", "IA"}
    /\ cluster \in IF kind = "RS" THEN RSClusters ELSE IAClusters
    /\ crStatus = ""
    /\ finalizers = {}
    /\ owned = {}
    /\ available \in BOOLEAN
    /\ queued = TRUE
    /\ timer = FALSE
    /\ trace = <<>>
    /\ calls = <<>>
    /\ writes = {}
    /\ result = 0
    /\ err = NoError
    /\ repeat = FALSE
    /\ cancel = ""
    /\ licenseAPIReady = TRUE
    /\ jobChanged = FALSE
    /\ input \in [fn : {"Reconcile"}, first : Requests, second : Requests]
    /\ output = <<>>

\* Reconcile run on the same cluster state for each of the two requests, with
\* the same failure of an API call, if any.
ReconcileRequests ==
    /\ input.fn = "Reconcile"
    /\ output = <<>>
    /\ \E fault \in Reached(Reconcile(kind, input.first, "none"),
                            IF kind = "RS" THEN RSFaults ELSE IAFaults) :
          output' = [first |-> Reconcile(kind, input.first, fault),
                     second |-> Reconcile(kind, input.second, fault)]
    /\ UNCHANGED <<ctrlVars, input>>

RequestNext == ReconcileRequests

RequestSpec == RequestInit /\ [][RequestNext]_vars

----------------------------------------------------------------------------
(* C22: the request of a pass does not matter.                             *)

\* C22: two Reconcile calls that start from equal cluster states with
\* different requests return the same result and error, make the same status
\* tracker calls and the same cluster writes (the same components applied,
\* the same TLS secret written, the same Status update).
C22_RequestIgnored ==
    (output # <<>> /\ input.fn = "Reconcile") =>
        /\ output.first.result = output.second.result
        /\ output.first.err = output.second.err
        /\ output.first.calls = output.second.calls
        /\ output.first.applied = output.second.applied
        /\ output.first.tls = output.second.tls
        /\ output.first.statusWrite = output.second.statusWrite

\* Two passes with different requests both applied their components and
\* updated the Status.
C22_Witness ==
    /\ output # <<>>
    /\ input.fn = "Reconcile"
    /\ input.first # input.second
    /\ output.first.applied >= 1
    /\ output.second.statusWrite

----------------------------------------------------------------------------
(* C23: a component that cannot be applied.                                *)

ApplySteps == {"Apply1", "Apply2", "Apply3"}

\* The pass ended at the failure to apply its k-th component.
ApplyFailed(k) == PassDone /\ LastStep = Step(ApplyStep(k), "error")

\* C23: a pass in which applying a component failed called
\* SetDegraded("Error creating / updating resource") last, returned the error,
\* did not call ClearDegraded and did not write the Status; an ImageAssurance
\* pass applies the passthrough TLS secret, the image assurance component and
\* the certificate management component in that order, and when the k-th
\* fails those after it are not applied and those before it are.
C23_ApplyFailureDegrades ==
    \A k \in 1..3 :
        ApplyFailed(k) =>
            /\ LastCall = SetDegraded("Error creating / updating resource")
            /\ err # NoError
            /\ result = 0
            /\ ~Called("ClearDegraded")
            /\ <<"Status", "CR">> \notin writes
            /\ SelectSeq(StepNames, LAMBDA st : st \in ApplySteps) = [i \in 1..k |-> ApplyStep(i)]
            /\ kind = "IA" =>
                  /\ \A j \in k..3 : \A x \in IAObjects(j) : <<"Create", x>> \notin writes
                  /\ \A j \in 2..(k - 1) : IAObjects(j) \subseteq owned
                  /\ k > 1 => cluster["APICert"] = "present"

\* An ImageAssurance pass applied the TLS secret and the image assurance
\* component, and failed to apply the certificate management component.
C23_Witness ==
    /\ kind = "IA"
    /\ ApplyFailed(3)
    /\ <<"Create", <<"Component", "ImageAssurance">>>> \in writes
    /\ <<"Component", "CertificateManagement">> \notin owned

----------------------------------------------------------------------------
(* C24: where the delay comes from.                                        *)

\* Every component of the pass was applied.
AllApplied ==
    \A k \in 1..(IF kind = "IA" THEN Len(IAComponents) ELSE 1) :
        \E i \in DOMAIN trace : trace[i] = Step(ApplyStep(k), "ok")

\* The pass ended waiting for a precondition: a dependency is missing, the
\* variant is not the right one, or an upstream resource is not ready.
PreconditionWait ==
    /\ PassDone
    /\ LastStep.step \notin ApplySteps \cup {"IsAvailable", "StatusUpdate"}
    /\ LastStep.out \notin {"ok", "error"}

\* C24: a pass returns a RequeueAfter other than zero only when it applied
\* every component and IsAvailable() was false; the delay is then 30 seconds
\* and the error is nil; a pass that ends waiting for a precondition returns
\* an empty Result.
C24_DelayOnlyWhenNotAvailable ==
    PassDone =>
        /\ result # 0 =>
              /\ result = 30
              /\ err = NoError
              /\ AllApplied
              /\ LastStep = Step("IsAvailable", "false")
        /\ PreconditionWait => result = 0

\* An ImageAssurance pass applied its three components, found them not
\* available and asked for 30 seconds.
C24_Witness ==
    /\ kind = "IA"
    /\ PassDone
    /\ result = 30
    /\ AllApplied
    /\ LastStep = Step("IsAvailable", "false")

----------------------------------------------------------------------------
(* C25: Status.State under later passes.                                   *)

\* A step of a reconciler.
AnyReconcile == RSReconcile \/ IAReconcile \/ LSReconcile

\* C25: a pass that starts with Status.State = Ready leaves it Ready whatever
\* its outcome; a pass changes Status.State only to Ready, and only when no
\* step of it failed, IsAvailable() returned true and the Status update
\* succeeded.
C25_ReadyIsNeverTakenBack ==
    [][AnyReconcile =>
          /\ crStatus = TigeraStatusReady => crStatus' = TigeraStatusReady
          /\ crStatus' # crStatus =>
                /\ crStatus' = TigeraStatusReady
                /\ err' = NoError
                /\ \A i \in DOMAIN trace' : trace'[i].out # "error"
                /\ \E i \in DOMAIN trace' : trace'[i] = Step("IsAvailable", "true")
                /\ trace'[Len(trace')] = Step("StatusUpdate", "ok")]_vars

\* With Status.State Ready, a later pass failed to apply a component and
\* returned the error.
C25_Witness ==
    /\ crStatus = TigeraStatusReady
    /\ PassDone
    /\ LastStep = Step("Apply1", "error")
    /\ err # NoError

----------------------------------------------------------------------------
(* C26: the order of the status and apply calls of a pass.                 *)

\* The places of the calls of op among the status tracker calls of the pass.
CallsOf(op) == {i \in DOMAIN calls : calls[i].op = op}

\* Every SetDegraded of the pass comes after its OnCRFound.
OnCRFoundFirst ==
    \A i \in CallsOf("SetDegraded") : \E j \in CallsOf("OnCRFound") : j < i

\* CreateOrUpdateOrDelete is invoked only after every read, validation and
\* image resolution before it succeeded, and not after a SetDegraded: a
\* SetDegraded is the last call of its pass and comes with the step that ends
\* the pass.
ApplyAfterPrerequisites ==
    /\ \A i \in DOMAIN trace : trace[i].step \in ApplySteps =>
          \A j \in 1..(i - 1) : trace[j].out \in {"ok", "notfound"}
    /\ \A i \in CallsOf("SetDegraded") : i = Len(calls) /\ LastStep.out # "ok"

\* ClearDegraded is called at most once, after every component was applied,
\* and no SetDegraded follows it.
ClearDegradedLast ==
    /\ Cardinality(CallsOf("ClearDegraded")) <= 1
    /\ CallsOf("ClearDegraded") # {} =>
          /\ AllApplied
          /\ \A i \in CallsOf("SetDegraded") : \A j \in CallsOf("ClearDegraded") : i < j

\* C26 as stated: in every RuntimeSecurity and ImageAssurance pass OnCRFound
\* precedes any SetDegraded; CreateOrUpdateOrDelete runs only after every
\* prerequisite succeeded and never after a SetDegraded; ClearDegraded is
\* called at most once, after all components were applied, with no
\* SetDegraded after it.
C26_OnCRFoundBeforeAnySetDegraded ==
    (PassDone /\ kind \in {"RS", "IA"}) =>
        /\ OnCRFoundFirst
        /\ ApplyAfterPrerequisites
        /\ ClearDegradedLast

\* C26: the same, with the one exception the code makes: a pass whose read of
\* the custom resource fails with an error other than not-found calls
\* SetDegraded and nothing else; in every other pass OnCRFound precedes any
\* SetDegraded.
C26_OnCRFoundBeforeSetDegradedOnceRead ==
    (PassDone /\ kind \in {"RS", "IA"}) =>
        /\ IF trace[1] = Step("GetCR", "error")
           THEN Len(calls) = 1 /\ calls[1].op = "SetDegraded" /\ Len(trace) = 1
           ELSE OnCRFoundFirst
        /\ ApplyAfterPrerequisites
        /\ ClearDegradedLast

\* An ImageAssurance pass called OnCRFound, then stopped at the read of the
\* Authentication and called SetDegraded.
C26_Witness ==
    /\ PassDone
    /\ kind = "IA"
    /\ Len(calls) = 2
    /\ calls[1] = OnCRFound
    /\ calls[2].op = "SetDegraded"
    /\ LastStep.step = "GetAuthentication"

----------------------------------------------------------------------------
(* C27: the Authentication resource in an ImageAssurance pass.             *)

\* The pass read the Authentication with outcome out.
ReadAuthentication(out) ==
    /\ kind = "IA"
    /\ PassDone
    /\ \E i \in DOMAIN trace : trace[i] = Step("GetAuthentication", out)

\* C27: an ImageAssurance pass that finds no Authentication goes on to the
\* key validator config and is not degraded for that; one that finds an
\* Authentication whose state is not Ready calls SetDegraded("Authentication
\* is not ready"), returns a nil error and applies nothing; one whose read of
\* it fails with another error calls SetDegraded and returns the error.
C27_AuthenticationThreeWays ==
    /\ ReadAuthentication("notfound") =>
          /\ \E i \in DOMAIN trace :
                /\ trace[i] = Step("GetAuthentication", "notfound")
                /\ i < Len(trace)
                /\ trace[i + 1].step = "GetKeyValidatorConfig"
          /\ \A i \in CallsOf("SetDegraded") :
                calls[i].msg \notin {"Authentication is not ready",
                                     "Error querying Authentication"}
    /\ ReadAuthentication("not ready") =>
          /\ LastStep = Step("GetAuthentication", "not ready")
          /\ LastCall = SetDegraded("Authentication is not ready")
          /\ err = NoError
          /\ result = 0
          /\ AppliedNothing
    /\ ReadAuthentication("error") =>
          /\ LastStep = Step("GetAuthentication", "error")
          /\ LastCall = SetDegraded("Error querying Authentication")
          /\ err # NoError
          /\ AppliedNothing

\* A pass found no Authentication and went on to apply its three components.
C27_Witness ==
    /\ ReadAuthentication("notfound")
    /\ AllApplied
    /\ cluster["Authentication"] = "absent"

----------------------------------------------------------------------------
(* C28: the create list and the delete list of RuntimeSecurity.            *)

\* Objects() was called on a RuntimeSecurity Config.
RenderedRuntimeSecurity == output # <<>> /\ input.fn = "RuntimeSecurity"

\* The Config has what Objects() dereferences: a trusted bundle and, when it
\* renders the sasha Deployment, a RuntimeSecuritySpec.
CompleteConfig ==
    /\ input.TrustedBundle # "nil"
    /\ Len(input.SashaESSecrets) > 0 => input.RuntimeSecuritySpec # "nil"

\* The objects that are rendered only together with sasha.
SashaObjects ==
    Range(CopyToNamespace(input.SashaESSecrets))
        \cup {<<"ServiceAccount", "sasha">>, <<"Deployment", "sasha">>}

\* The lists of a call of Objects(): the Namespace, the copies of the pull
\* secrets and the ConfigMap of the trusted bundle lead the create list, the
\* sasha objects are in it exactly when there are Sasha secrets, and the
\* delete list is the sasha CronJob and the old sasha ServiceAccount.
RuntimeSecurityLists(objs) ==
    LET n == Len(input.PullSecrets) IN
    /\ objs # Panic
    /\ Len(objs.create) >= n + 2
    /\ objs.create[1] = <<"Namespace", "tigera-runtime-security">>
    /\ \A i \in 1..n : objs.create[i + 1] = <<"Secret", input.PullSecrets[i]>>
    /\ objs.create[n + 2] = <<"ConfigMap", "tigera-ca-bundle">>
    /\ IF Len(input.SashaESSecrets) > 0
       THEN /\ Len(objs.create) = n + 2 + Len(input.SashaESSecrets) + 2
            /\ SashaObjects \subseteq Range(objs.create)
       ELSE /\ Len(objs.create) = n + 2
            /\ <<"ServiceAccount", "sasha">> \notin Range(objs.create)
            /\ <<"Deployment", "sasha">> \notin Range(objs.create)
    /\ objs.delete = <<<<"CronJob", "sasha">>, <<"ServiceAccount", "tigera-sasha">>>>

----------------------------------------------------------------------------
(* C29: the env vars setManagerCloudEnvs appends.                          *)

\* setManagerCloudEnvs was called on a manager.
DecoratedManager == output # <<>> /\ input.fn = "ManagerCloud"

\* The name of the env var that a key of ManagerExtraEnv yields.
EnvNameOf(key) ==
    IF key = "portalAPIURL" THEN "CNX_PORTAL_URL"
    ELSE IF key = "auth0OrgID" THEN "CNX_AUTH0_ORG_ID"
    ELSE key

ImageAssuranceEnvNames ==
    <<"ENABLE_IMAGE_ASSURANCE_SUPPORT", "CNX_IMAGE_ASSURANCE_API_URL",
      "CNX_IMAGE_ASSURANCE_ORGANIZATION_ID",
      "IMAGE_ASSURANCE_SCANNER_CLI_TOKEN_SECRET_NAME",
      "IMAGE_ASSURANCE_SCANNER_CLI_DOWNLOAD_URL">>

\* The env vars of envs after its first n.
EnvsAfter(envs, n) == SubSeq(envs, n + 1, Len(envs))

\* extra is what the keys of ManagerExtraEnv yield, in ascending order of the
\* keys.
ExtraInKeyOrder(extra) ==
    LET keys == DOMAIN input.ManagerExtraEnv IN
    /\ Len(extra) = Cardinality(keys) + (IF "portalAPIURL" \in keys THEN 1 ELSE 0)
    /\ \A k \in keys :
          \E i \in DOMAIN extra :
             /\ extra[i] = EnvVar(EnvNameOf(k), input.ManagerExtraEnv[k])
             /\ k = "portalAPIURL" =>
                   /\ i < Len(extra)
                   /\ extra[i + 1] = EnvVar("ENABLE_PORTAL_SUPPORT", "true")
    /\ \A k1, k2 \in keys :
          StringLess(k1, k2) =>
             \A i, j \in DOMAIN extra :
                extra[i].Name = EnvNameOf(k1) /\ extra[j].Name = EnvNameOf(k2) => i < j

\* envs is the given entries, then the two fixed variables, then the five
\* image-assurance variables when ImageAssuranceResources is set, then the
\* extra variables.
CloudEnvs(envs) ==
    LET p == Len(input.envs)
        q == IF input.ImageAssuranceResources THEN p + 7 ELSE p + 2
    IN  /\ Len(envs) >= q
        /\ SubSeq(envs, 1, p) = input.envs
        /\ envs[p + 1] = EnvVar("ENABLE_MANAGED_CLUSTERS_ONLY", "true")
        /\ envs[p + 2] = EnvVar("LICENSE_EDITION", "cloudEdition")
        /\ input.ImageAssuranceResources =>
              \A i \in 1..5 : envs[p + 2 + i].Name = ImageAssuranceEnvNames[i]
        /\ ExtraInKeyOrder(EnvsAfter(envs, q))

\* C29: setManagerCloudEnvs keeps the given entries as a prefix and appends
\* ENABLE_MANAGED_CLUSTERS_ONLY=true, LICENSE_EDITION=cloudEdition, the five
\* image-assurance variables only when ImageAssuranceResources is set, and
\* then the extra variables in ascending order of their ManagerExtraEnv key
\* (portalAPIURL yields CNX_PORTAL_URL and ENABLE_PORTAL_SUPPORT=true,
\* auth0OrgID yields CNX_AUTH0_ORG_ID, any other key yields key=value); two
\* calls that iterate over the map in different orders return the same list.
C29_CloudEnvsInOrder ==
    DecoratedManager =>
        /\ CloudEnvs(output.first.envs)
        /\ CloudEnvs(output.second.envs)
        /\ output.first.envs = output.second.envs

\* A manager with one given env var, image assurance resources and the keys
\* bar, portalAPIURL and auth0OrgID was decorated: the given entry stays
\* first and the last four env vars are those of auth0OrgID, bar and
\* portalAPIURL.
C29_Witness ==
    /\ DecoratedManager
    /\ input.envs = <<EnvVar("FOO", "given")>>
    /\ input.ImageAssuranceResources
    /\ DOMAIN input.ManagerExtraEnv = {"bar", "portalAPIURL", "auth0OrgID"}
    /\ Len(output.first.envs) = 12
    /\ output.first.envs[1] = EnvVar("FOO", "given")
    /\ output.first.envs[9].Name = "CNX_AUTH0_ORG_ID"
    /\ output.first.envs[10].Name = "bar"
    /\ output.first.envs[11].Name = "CNX_PORTAL_URL"
    /\ output.first.envs[12] = EnvVar("ENABLE_PORTAL_SUPPORT", "true")

----------------------------------------------------------------------------
(* C30: the objects of the API server and the names they refer to.         *)

\* APIServer was called on a Core resource.
RenderedAPIServer == output # <<>> /\ input.fn = "APIServer"

\* The kinds and names of a list, in its order.
KindsAndNames(objs) == [i \in DOMAIN objs |-> <<objs[i].kind, objs[i].name>>]

APIServerOrder ==
    <<<<"Deployment", "tigera-apiserver">>,
      <<"ConfigMap", "tigera-audit-policy">>,
      <<"ServiceAccount", "tigera-apiserver">>,
      <<"APIService", "v3.projectcalico.org">>,
      <<"Service", "tigera-api">>,
      <<"ClusterRole", "tigera-tiered-policy-passthrough">>,
      <<"ClusterRoleBinding", "tigera-tiered-policy-passthrough">>,
      <<"ClusterRoleBinding", "tigera-apiserver-delegate-auth">>,
      <<"RoleBinding", "tigera-auth-reader">>>>

\* The list has an object of this kind and name in this namespace.
InList(objs, k, n, ns) ==
    \E i \in DOMAIN objs :
        objs[i].kind = k /\ objs[i].name = n /\ objs[i].namespace = ns

OfKind(objs, kinds) == {o \in Range(objs) : o.kind \in kinds}
Bindings(objs) == OfKind(objs, {"ClusterRoleBinding", "RoleBinding"})

\* The Service behind the APIService, the ServiceAccount of the bindings and
\* of the pod, and the ConfigMap behind a volume are in the list; the volume
\* behind every mount of a container is in the Deployment.
NamedReferences(objs) ==
    /\ \A a \in OfKind(objs, {"APIService"}) :
          InList(objs, "Service", a.service.name, a.service.namespace)
    /\ \A b \in Bindings(objs) :
          \A i \in DOMAIN b.subjects :
             b.subjects[i].kind = "ServiceAccount" =>
                InList(objs, "ServiceAccount", b.subjects[i].name, b.subjects[i].namespace)
    /\ \A d \in OfKind(objs, {"Deployment"}) :
          /\ InList(objs, "ServiceAccount", d.serviceAccountName, d.namespace)
          /\ \A i \in DOMAIN d.volumes :
                d.volumes[i].ConfigMap # "" =>
                   InList(objs, "ConfigMap", d.volumes[i].ConfigMap, d.namespace)
          /\ \A i \in DOMAIN d.containers :
                \A j \in DOMAIN d.containers[i].VolumeMounts :
                   \E v \in DOMAIN d.volumes :
                      d.volumes[v].Name = d.containers[i].VolumeMounts[j]

\* The role of every binding and the pull secrets of the pod are in the list.
RolesAndPullSecrets(objs) ==
    /\ \A b \in Bindings(objs) :
          InList(objs, b.roleRef.kind, b.roleRef.name, b.namespace)
    /\ \A d \in OfKind(objs, {"Deployment"}) :
          \A i \in DOMAIN d.pullSecrets :
             InList(objs, "Secret", d.pullSecrets[i], d.namespace)

\* The nine objects in their order, or none for another variant.
NineOrNone(objs) ==
    IF input.Variant # TigeraSecureEnterprise
    THEN objs = <<>>
    ELSE KindsAndNames(objs) = APIServerOrder

\* C30 as stated: APIServer(cr) returns no objects unless the variant is
\* TigeraSecureEnterprise and otherwise the nine objects in their fixed
\* order, and every object the list refers to by name is itself in the list
\* or in the Deployment.
C30_EveryReferenceInList ==
    RenderedAPIServer =>
        /\ NineOrNone(output.first.create)
        /\ NamedReferences(output.first.create)
        /\ RolesAndPullSecrets(output.first.create)

\* C30, amended: APIServer(cr) returns no objects unless the variant is
\* TigeraSecureEnterprise and otherwise the nine objects in their fixed
\* order; the Service behind the APIService, the ServiceAccount in the
\* bindings and the pod spec, the ConfigMap behind the audit-policy volume
\* and the ClusterRole of the tigera-tiered-policy-passthrough binding are in
\* the list, and the volumes behind the container's mounts are in the
\* Deployment.
C30_NamedReferencesInList ==
    RenderedAPIServer =>
        LET objs == output.first.create IN
        /\ NineOrNone(objs)
        /\ NamedReferences(objs)
        /\ \A b \in Bindings(objs) :
              b.name = "tigera-tiered-policy-passthrough" =>
                 InList(objs, b.roleRef.kind, b.roleRef.name, b.namespace)

\* APIServer was called on a TigeraSecureEnterprise Core and returned nine
\* objects; the APIService, the fourth, names the Service that is the fifth,
\* and the last binding names the ServiceAccount that is the third.
C30_Witness ==
    /\ RenderedAPIServer
    /\ input.Variant = TigeraSecureEnterprise
    /\ Len(output.first.create) = 9
    /\ output.first.create[4].service.name = output.first.create[5].name
    /\ output.first.create[9].subjects[1].name = output.first.create[3].name
    /\ output.first.create[1].containers[1].VolumeMounts # <<>>

====
